---- MODULE Spec2Model ----
(***************************************************************************)
(* Smart folder rule evaluation of fastgtd: the node store, the rule       *)
(* store, the condition evaluators of SmartFolderRulesEngine, the rule     *)
(* validator and the API handlers that write rules and smart folders.      *)
(***************************************************************************)
EXTENDS Integers, Sequences, FiniteSets, TLC

VARIABLES
    nodes,      \* nodes / node_tasks / node_smart_folders tables: id -> row
    node_tags,  \* node_tags association table: set of <<node_id, tag_id>>
    rules,      \* rules table: id -> row
    now,        \* datetime.now(timezone.utc) as a timestamp
    call,       \* the request being served, or the last one served
    result,     \* what the last request returned
    stack,      \* nested _build_saved_filter calls of the evaluation in progress
    notes,      \* notes table: id -> row
    inflight    \* move_node requests between their first query and their commit

vars == <<nodes, node_tags, rules, now, call, result, stack, notes, inflight>>

----------------------------------------------------------------------------
(* Identifiers and values.  Ids are UUIDs; condition values are strings.   *)

None == "None"          \* Python None / SQL NULL for id and string columns
Missing == "Missing"    \* a key that is absent from a JSON dict
NullTs == -1            \* SQL NULL for a timestamp column

Users == {"u1", "u2"}
NodeIds == {"f1", "f2", "t1", "t2", "n1", "tp", "sf", "g1", "g2"}
RuleIds == {"r1", "r2"}
TagIds == {"ta", "tb", "tc"}
GhostId == "ghost"      \* a well-formed UUID that names no row

\* uuid.UUID(v) succeeds exactly on the well-formed UUID strings
IsUUID(v) == v \in NodeIds \cup RuleIds \cup TagIds \cup {GhostId}

\* TaskStatus(v) / TaskPriority(v) succeed exactly on the enum values
TaskStatus == {"todo", "in_progress", "done", "dropped"}
TaskPriority == {"low", "medium", "high", "urgent"}

\* number of timestamps the model distinguishes within one UTC day; the
\* first is 00:00:00.000000 (datetime.min.time()), the last is
\* 23:59:59.999999 (datetime.max.time()), the one before it 23:59:59.000000
TicksPerDay == 4

\* Python recursion limit, counted in nested _build_saved_filter calls
RecursionLimit == 3

Range(s) == {s[i] : i \in DOMAIN s}

----------------------------------------------------------------------------
(* Calendar.  Day 0 is Monday 2024-05-27, so day 19 is Saturday            *)
(* 2024-06-15; June 2024 is days 5..34, July days 35..65.                  *)

Ts(day, tick) == day * TicksPerDay + tick
DayOf(ts) == ts \div TicksPerDay
\* datetime.combine(d, datetime.min.time()) and (d, datetime.max.time())
StartOfDay(day) == Ts(day, 0)
\* Variant: the day ends at 23:59:59.000000
EndOfDayAtLastSecond(day) == Ts(day, TicksPerDay - 2)
EndOfDay(day) == Ts(day, TicksPerDay - 1)
\* date.weekday(): Monday = 0
Weekday(day) == day % 7
\* date.replace(day=1) and the last day of the same month
MonthStart(day) == IF day < 5 THEN -26 ELSE IF day <= 34 THEN 5 ELSE 35
MonthEnd(day) == IF day < 5 THEN 4 ELSE IF day <= 34 THEN 34 ELSE 65

Today == 19

\* int(v): the integer strings that occur as condition values
IntStrings == {"0", "1", "2", "-1"}
IntOf(v) == CASE v = "0" -> 0 [] v = "1" -> 1 [] v = "2" -> 2 [] v = "-1" -> -1
IsInt(v) == v \in IntStrings

\* datetime.fromisoformat(v).replace(tzinfo=None): the ISO strings that
\* occur as condition values, as <<day, tick>>
IsoStrings == {"2024-06-14", "2024-06-15", "2024-06-15T23:59:59", "2024-06-16"}
IsoOf(v) == CASE v = "2024-06-14" -> Ts(18, 0)
              [] v = "2024-06-15" -> Ts(19, 0)
              [] v = "2024-06-15T23:59:59" -> Ts(19, TicksPerDay - 2)
              [] v = "2024-06-16" -> Ts(20, 0)
IsIso(v) == v \in IsoStrings

----------------------------------------------------------------------------
(* Rule bodies: JSON documents {conditions: [...], logic: ...}.            *)

Cond(t, o, v) == [type |-> t, operator |-> o, values |-> v]
\* a dict with the keys that are present; {} has neither key
Body(cs, l) == [has_conditions |-> TRUE, conditions |-> cs, logic |-> l]
EmptyDict == [has_conditions |-> FALSE, conditions |-> <<>>, logic |-> Missing]
\* SmartFolder.rules default and Rule.rule_data default
DefaultRules == Body(<<>>, "AND")
\* a NULL rules column
NullRules == [has_conditions |-> FALSE, conditions |-> <<>>, logic |-> None]

\* rules.get("conditions", []) and rules.get("logic", "AND")
GetConditions(b) == IF b.has_conditions THEN b.conditions ELSE <<>>
GetLogic(b) == IF b.logic = Missing THEN "AND" ELSE b.logic
\* Python truthiness of the dict: None and {} are falsy
Truthy(b) == b # NullRules /\ (b.has_conditions \/ b.logic # Missing)

----------------------------------------------------------------------------
(* Rows.                                                                   *)

NodeRow(o, p, t, ttl) ==
    [exists |-> TRUE, owner_id |-> o, parent_id |-> p, node_type |-> t,
     title |-> ttl, status |-> None, priority |-> None,
     due_at |-> NullTs, earliest_start_at |-> NullTs,
     rule_id |-> None, rules |-> NullRules]
TaskRow(o, p, ttl, st, pr, due, start) ==
    [NodeRow(o, p, "task", ttl) EXCEPT !.status = st, !.priority = pr,
                                       !.due_at = due, !.earliest_start_at = start]
SmartFolderRow(o, p, ttl, rid, rs) ==
    [NodeRow(o, p, "smart_folder", ttl) EXCEPT !.rule_id = rid, !.rules = rs]
NoNode == [NodeRow(None, None, None, <<>>) EXCEPT !.exists = FALSE]

RuleRow(o, pub, sys, rd) ==
    [exists |-> TRUE, owner_id |-> o, is_public |-> pub, is_system |-> sys,
     rule_data |-> rd]
NoRule == [exists |-> FALSE, owner_id |-> None, is_public |-> FALSE,
           is_system |-> FALSE, rule_data |-> EmptyDict]

Existing == {n \in NodeIds : nodes[n].exists}

\* the notes API keeps its own table, with the owner on the note list
NoteIds == {"na", "nb", "nc"}
NoteListIds == {"l1", "l2", "l3"}
NoteRow(l, p) == [exists |-> TRUE, note_list_id |-> l, parent_id |-> p]
NoNote == [exists |-> FALSE, note_list_id |-> None, parent_id |-> None]
NoNotes == [n \in NoteIds |-> NoNote]

\* no request is in flight
NoRequests == <<>>

----------------------------------------------------------------------------
(* Filters.  A condition evaluator returns None (no contribution), a SQL   *)
(* boolean expression, represented by the set of node rows it is true of,  *)
(* or does not return (recursion limit, runaway recursive query).          *)

NoFilter == [kind |-> "none", ids |-> {}]
Filter(S) == [kind |-> "filter", ids |-> S]
Raised == [kind |-> "error", ids |-> {}]
\* Variant: "return None" where the code returns False
FalseFilterReturnsNone == NoFilter
\* the Python constant False, coerced to the SQL expression false
FalseFilter == Filter({})

TaskIds == {n \in Existing : nodes[n].node_type = "task"}

\* str.lower() on the strings that occur as has_children values
LowerStr(v) == IF v \in {"TRUE", "True"} THEN "true" ELSE v

\* the characters of the strings that occur as titles and title values
CharsOf(v) == CASE v = "ab" -> <<"a", "b">>
                [] v = "Ab" -> <<"A", "b">>
                [] v = "a" -> <<"a">>
                [] v = "A" -> <<"A">>
                [] v = "b" -> <<"b">>
                [] v = "_b" -> <<"_", "b">>
                [] v = "%" -> <<"%">>
                [] OTHER -> <<v>>
LowerChar(c) == CASE c = "A" -> "a" [] c = "B" -> "b" [] OTHER -> c

\* SQL ILIKE: % matches any run of characters, _ any one character
RECURSIVE ILike(_, _)
ILike(p, s) ==
    IF p = <<>> THEN s = <<>>
    ELSE IF Head(p) = "%" THEN ILike(Tail(p), s) \/ (s # <<>> /\ ILike(p, Tail(s)))
    ELSE IF Head(p) = "_" THEN s # <<>> /\ ILike(Tail(p), Tail(s))
    ELSE s # <<>> /\ LowerChar(Head(p)) = LowerChar(Head(s)) /\ ILike(Tail(p), Tail(s))

BuildNodeTypeFilter(operator, values) ==
    CASE operator = "equals" -> Filter({n \in Existing : nodes[n].node_type = values[1]})
      [] operator = "in" -> Filter({n \in Existing : nodes[n].node_type \in Range(values)})
      [] operator = "not_equals" -> Filter({n \in Existing : nodes[n].node_type # values[1]})
      [] OTHER -> NoFilter

\* select(node_tags.c.node_id).where(node_tags.c.tag_id == tag)
TaggedWith(tag) == {nt[1] : nt \in {x \in node_tags : x[2] = tag}}

\* Variant: the subqueries chained with union instead of intersect
RECURSIVE IntersectFromAsUnion(_, _, _)
IntersectFromAsUnion(base_query, tag_uuids, i) ==
    IF i > Len(tag_uuids) THEN base_query
    ELSE IntersectFromAsUnion(base_query \cup TaggedWith(tag_uuids[i]), tag_uuids, i + 1)

\* the chain subqueries[0].intersect(subqueries[1]).intersect(...)
RECURSIVE IntersectFrom(_, _, _)
IntersectFrom(base_query, tag_uuids, i) ==
    IF i > Len(tag_uuids) THEN base_query
    ELSE IntersectFrom(base_query \cap TaggedWith(tag_uuids[i]), tag_uuids, i + 1)

BuildTagFilter(operator, values) ==
    IF \E i \in DOMAIN values : ~IsUUID(values[i]) THEN NoFilter
    ELSE CASE operator = "any" ->
                Filter({n \in Existing : \E t \in Range(values) : <<n, t>> \in node_tags})
           [] operator = "all" ->
                IF Len(values) = 1 THEN Filter(TaggedWith(values[1]))
                ELSE Filter(IntersectFrom(TaggedWith(values[1]), values, 2))
           [] OTHER -> NoFilter

BuildParentFilter(operator, values) ==
    CASE operator = "equals" ->
            IF ~IsUUID(values[1]) THEN NoFilter
            ELSE Filter({n \in Existing : nodes[n].parent_id = values[1]})
      [] operator = "in" ->
            IF \E i \in DOMAIN values : ~IsUUID(values[i]) THEN NoFilter
            ELSE Filter({n \in Existing : nodes[n].parent_id \in Range(values)})
      [] OTHER -> NoFilter

ChildrenOf(S) == {n \in Existing : nodes[n].parent_id \in S}

\* WITH RECURSIVE node_hierarchy ... UNION ALL: one level per iteration until
\* an iteration adds no row; on a parent cycle no iteration is the last
RECURSIVE NodeHierarchy(_, _)
NodeHierarchy(level, iteration) ==
    IF level = {} THEN [ends |-> TRUE, ids |-> {}]
    ELSE IF iteration > Cardinality(NodeIds) THEN [ends |-> FALSE, ids |-> {}]
    ELSE LET rest == NodeHierarchy(ChildrenOf(level), iteration + 1)
         IN  [ends |-> rest.ends, ids |-> level \cup rest.ids]

BuildDescendantsSubquery(ancestor_id) ==
    LET cte == NodeHierarchy(ChildrenOf({ancestor_id}), 1)
    IN  IF ~cte.ends THEN Raised
        ELSE IF cte.ids # {} THEN Filter(cte.ids)
        ELSE NoFilter

\* or_(*conditions) over the filters that are not None
OrOfFilters(fs) ==
    IF \E f \in fs : f.kind = "error" THEN Raised
    ELSE IF \A f \in fs : f.kind = "none" THEN NoFilter
    ELSE Filter(UNION {f.ids : f \in {g \in fs : g.kind = "filter"}})

BuildAncestorFilter(operator, values) ==
    CASE operator = "equals" ->
            IF ~IsUUID(values[1]) THEN NoFilter
            ELSE BuildDescendantsSubquery(values[1])
      [] operator = "in" ->
            IF \E i \in DOMAIN values : ~IsUUID(values[i]) THEN NoFilter
            ELSE OrOfFilters({BuildDescendantsSubquery(values[i]) : i \in DOMAIN values})
      [] OTHER -> NoFilter

BuildTaskStatusFilter(operator, values) ==
    CASE operator = "equals" ->
            IF values[1] \notin TaskStatus THEN NoFilter
            ELSE Filter({n \in TaskIds : nodes[n].status = values[1]})
      [] operator = "in" ->
            IF ~(Range(values) \subseteq TaskStatus) THEN NoFilter
            ELSE Filter({n \in TaskIds : nodes[n].status \in Range(values)})
      [] operator = "not_in" ->
            IF ~(Range(values) \subseteq TaskStatus) THEN NoFilter
            ELSE Filter({n \in TaskIds : nodes[n].status \notin Range(values)})
      [] OTHER -> NoFilter

BuildTaskPriorityFilter(operator, values) ==
    CASE operator = "equals" ->
            IF values[1] \notin TaskPriority THEN NoFilter
            ELSE Filter({n \in TaskIds : nodes[n].priority = values[1]})
      [] operator = "in" ->
            IF ~(Range(values) \subseteq TaskPriority) THEN NoFilter
            ELSE Filter({n \in TaskIds : nodes[n].priority \in Range(values)})
      [] OTHER -> NoFilter

BuildTitleFilter(operator, values) ==
    CASE operator = "contains" ->
            Filter({n \in Existing :
                      ILike(<<"%">> \o CharsOf(values[1]) \o <<"%">>, nodes[n].title)})
      [] operator = "equals" ->
            Filter({n \in Existing : nodes[n].title = CharsOf(values[1])})
      [] OTHER -> NoFilter

\* select(Node.parent_id).where(Node.parent_id.is_not(None)).distinct()
ParentIds == {nodes[n].parent_id : n \in {m \in Existing : nodes[m].parent_id # None}}

BuildChildrenFilter(operator, values) ==
    IF operator = "equals"
    THEN IF LowerStr(values[1]) \in {"true", "1", "yes"}
         THEN Filter(Existing \cap ParentIds)
         ELSE Filter(Existing \ ParentIds)
    ELSE NoFilter

----------------------------------------------------------------------------
(* Date conditions.                                                        *)

DateField(n, date_field) ==
    IF date_field = "due_at" THEN nodes[n].due_at ELSE nodes[n].earliest_start_at

\* base_condition AND Node.id IN (select Task.id where lo <= field <= hi);
\* a comparison with a NULL field is not true
Between(date_field, lo, hi) ==
    Filter({n \in TaskIds : /\ DateField(n, date_field) # NullTs
                            /\ DateField(n, date_field) >= lo
                            /\ DateField(n, date_field) <= hi})
Before(date_field, hi) ==
    Filter({n \in TaskIds : /\ DateField(n, date_field) # NullTs
                            /\ DateField(n, date_field) < hi})
After(date_field, lo) ==
    Filter({n \in TaskIds : /\ DateField(n, date_field) # NullTs
                            /\ DateField(n, date_field) > lo})

NoValuesOperators == {"is_today", "is_null", "is_not_null", "is_overdue", "this_week",
                      "next_week", "this_month", "yesterday", "tomorrow"}
OverdueOperators == {"overdue_by_days", "overdue_by_more_than", "overdue_by_less_than"}
DueOperators == {"due_in_days", "due_within_days", "due_in_more_than_days"}
RelativeOperators == {"within_last_days", "more_than_days_ago", "exactly_days_ago",
                      "within_next_days", "starts_within_days", "starts_in_more_than_days"}

\* lines 557-840: the operators that take values
BuildValuedDateFilter(operator, values, date_field) ==
    LET today == DayOf(now)
        days == IntOf(values[1])
    IN
    IF values = <<>> \/ values[1] = "" THEN NoFilter
    ELSE IF operator \in OverdueOperators THEN
        IF date_field # "due_at" \/ ~IsInt(values[1]) THEN NoFilter
        ELSE CASE operator = "overdue_by_days" ->
                    Between("due_at", StartOfDay(today - days), EndOfDay(today - days))
               [] operator = "overdue_by_more_than" ->
                    Before("due_at", EndOfDay(today - days))
               [] operator = "overdue_by_less_than" ->
                    Between("due_at", StartOfDay(today - days), StartOfDay(today) - 1)
    ELSE IF operator \in DueOperators THEN
        IF ~IsInt(values[1]) THEN NoFilter
        ELSE CASE operator = "due_in_days" ->
                    Between(date_field, StartOfDay(today + days), EndOfDay(today + days))
               [] operator = "due_within_days" ->
                    Between(date_field, StartOfDay(today), EndOfDay(today + days))
               [] operator = "due_in_more_than_days" ->
                    After(date_field, EndOfDay(today + days))
    ELSE IF operator \in RelativeOperators THEN
        IF ~IsInt(values[1]) THEN NoFilter
        ELSE CASE operator = "within_last_days" ->
                    Between(date_field, StartOfDay(today - days), EndOfDay(today))
               [] operator = "more_than_days_ago" ->
                    Before(date_field, StartOfDay(today - days))
               [] operator = "exactly_days_ago" ->
                    Between(date_field, StartOfDay(today - days), EndOfDay(today - days))
               [] operator = "within_next_days" ->
                    Between(date_field, StartOfDay(today), EndOfDay(today + days))
               [] operator = "starts_within_days" ->
                    Between(date_field, StartOfDay(today), EndOfDay(today + days))
               [] operator = "starts_in_more_than_days" ->
                    After(date_field, EndOfDay(today + days))
    ELSE IF ~IsIso(values[1]) THEN NoFilter
    ELSE CASE operator = "on" ->
                Between(date_field, StartOfDay(DayOf(IsoOf(values[1]))),
                        Ts(DayOf(IsoOf(values[1])), TicksPerDay - 2))
           [] operator = "before" -> Before(date_field, IsoOf(values[1]))
           [] operator = "after" -> After(date_field, IsoOf(values[1]))
           [] operator = "between" /\ Len(values) >= 2 /\ values[2] # "" ->
                IF ~IsIso(values[2]) THEN NoFilter
                ELSE Between(date_field, IsoOf(values[1]), IsoOf(values[2]))
           [] OTHER -> NoFilter

BuildDateFilter(operator, values, date_field) ==
    LET today == DayOf(now)
        week_start == today - Weekday(today)
    IN
    CASE operator = "is_null" ->
            Filter({n \in TaskIds : DateField(n, date_field) = NullTs})
      [] operator = "is_not_null" ->
            Filter({n \in TaskIds : DateField(n, date_field) # NullTs})
      [] operator = "is_today" ->
            Between(date_field, StartOfDay(today), EndOfDay(today))
      [] operator = "is_overdue" ->
            IF date_field # "due_at" THEN NoFilter
            ELSE Before("due_at", StartOfDay(today))
      [] operator = "this_week" ->
            Between(date_field, StartOfDay(week_start), EndOfDay(week_start + 6))
      [] operator = "next_week" ->
            Between(date_field, StartOfDay(week_start + 7), EndOfDay(week_start + 13))
      [] operator = "this_month" ->
            Between(date_field, StartOfDay(MonthStart(today)), EndOfDay(MonthEnd(today)))
      [] operator = "yesterday" ->
            Between(date_field, StartOfDay(today - 1), EndOfDay(today - 1))
      [] operator = "tomorrow" ->
            Between(date_field, StartOfDay(today + 1), EndOfDay(today + 1))
      [] OTHER -> BuildValuedDateFilter(operator, values, date_field)

----------------------------------------------------------------------------
(* Rule lookup and composition.                                            *)

\* Variant: the rule is looked up by id alone
VisibleRuleById(rule_id, owner_id) == rule_id \in RuleIds /\ rules[rule_id].exists
\* select(Rule).where(Rule.id == rule_id,
\*                    or_(owner_id == owner, is_public, is_system))
VisibleRule(rule_id, owner_id) ==
    /\ rule_id \in RuleIds
    /\ rules[rule_id].exists
    /\ \/ rules[rule_id].owner_id = owner_id
       \/ rules[rule_id].is_public
       \/ rules[rule_id].is_system

\* and_(*conditions) / or_(*conditions) over a non-empty list of filters
AndOfFilters(fs) ==
    IF \E i \in DOMAIN fs : fs[i].kind = "error" THEN Raised
    ELSE Filter({n \in NodeIds : \A i \in DOMAIN fs : n \in fs[i].ids})
OrOfFilterList(fs) ==
    IF \E i \in DOMAIN fs : fs[i].kind = "error" THEN Raised
    ELSE Filter({n \in NodeIds : \E i \in DOMAIN fs : n \in fs[i].ids})

\* Variant: the logic is ignored and the conditions are always and-ed
CombineAlwaysAnd(logic, fs) == AndOfFilters(fs)
\* if logic == "AND": and_(...) else: or_(...)
Combine(logic, fs) ==
    IF logic = "AND" THEN AndOfFilters(fs) ELSE OrOfFilterList(fs)

\* Variant: every condition's filter is appended, None included
NotNoneKeepsAll(fs) == fs
\* the loop "if condition_filter is not None: conditions.append(...)"
NotNone(fs) == SelectSeq(fs, LAMBDA f : f.kind # "none")

RECURSIVE BuildConditionFilter(_, _, _)
RECURSIVE BuildSavedFilter(_, _, _, _)

BuildSavedFilter(operator, values, owner_id, depth) ==
    IF values = <<>> \/ values[1] = "" THEN FalseFilter
    ELSE IF ~IsUUID(values[1]) THEN FalseFilter
    ELSE IF ~VisibleRule(values[1], owner_id) \/ ~Truthy(rules[values[1]].rule_data)
         THEN FalseFilter
    ELSE IF depth >= RecursionLimit THEN Raised
    ELSE LET rule_data == rules[values[1]].rule_data
             built == [i \in DOMAIN GetConditions(rule_data) |->
                         BuildConditionFilter(GetConditions(rule_data)[i], owner_id, depth + 1)]
             conditions == NotNone(built)
         IN  IF conditions = <<>> THEN NoFilter
             ELSE Combine(GetLogic(rule_data), conditions)

BuildConditionFilter(condition, owner_id, depth) ==
    LET condition_type == condition.type
        operator == condition.operator
        values == condition.values
    IN
    IF condition_type = "" \/ operator = "" THEN NoFilter
    ELSE IF operator \notin NoValuesOperators /\ values = <<>> THEN NoFilter
    ELSE CASE condition_type = "node_type" -> BuildNodeTypeFilter(operator, values)
           [] condition_type = "tag_contains" -> BuildTagFilter(operator, values)
           [] condition_type = "parent_node" -> BuildParentFilter(operator, values)
           [] condition_type = "parent_ancestor" -> BuildAncestorFilter(operator, values)
           [] condition_type = "task_status" -> BuildTaskStatusFilter(operator, values)
           [] condition_type = "task_priority" -> BuildTaskPriorityFilter(operator, values)
           [] condition_type = "title_contains" -> BuildTitleFilter(operator, values)
           [] condition_type = "has_children" -> BuildChildrenFilter(operator, values)
           [] condition_type = "due_date" -> BuildDateFilter(operator, values, "due_at")
           [] condition_type = "earliest_start" ->
                BuildDateFilter(operator, values, "earliest_start_at")
           [] condition_type = "saved_filter" ->
                BuildSavedFilter(operator, values, owner_id, depth)
           [] OTHER -> NoFilter

----------------------------------------------------------------------------
(* Evaluation.                                                             *)

Returned(S) == [status |-> "ok", nodes |-> S]
Failed == [status |-> "error", nodes |-> {}]
NoResult == [status |-> "none", nodes |-> {}]

\* the smart_folder argument: the fields evaluate_smart_folder reads
FolderArg(id, rule_id, rs) == [id |-> id, rule_id |-> rule_id, rules |-> rs]
StoredFolder(f) == FolderArg(f, nodes[f].rule_id, nodes[f].rules)

\* Variant: the base query without the owner restriction
BaseQueryAnyOwner(smart_folder, owner_id) ==
    {n \in Existing : n # smart_folder.id /\ nodes[n].node_type # "template"}
\* select(Node).where(owner_id == owner, id != smart_folder.id, node_type != "template")
BaseQuery(smart_folder, owner_id) ==
    {n \in Existing : /\ nodes[n].owner_id = owner_id
                      /\ n # smart_folder.id
                      /\ nodes[n].node_type # "template"}

EvaluateSmartFolder(smart_folder, owner_id) ==
    LET by_rule == smart_folder.rule_id # None
        rule_body == IF by_rule THEN rules[smart_folder.rule_id].rule_data
                     ELSE smart_folder.rules
        built == [i \in DOMAIN GetConditions(rule_body) |->
                    BuildConditionFilter(GetConditions(rule_body)[i], owner_id, 0)]
        conditions == NotNone(built)
        query == BaseQuery(smart_folder, owner_id)
    IN
    IF by_rule /\ (~VisibleRule(smart_folder.rule_id, owner_id) \/ ~Truthy(rule_body))
        THEN Returned({})
    ELSE IF ~by_rule /\ (~Truthy(rule_body) \/ GetConditions(rule_body) = <<>>)
        THEN Returned({})
    ELSE IF \E i \in DOMAIN built : built[i].kind = "error" THEN Failed
    ELSE IF conditions # <<>>
        THEN Returned(query \cap Combine(GetLogic(rule_body), conditions).ids)
    ELSE Returned(query)

\* the temporary SmartFolder of preview_smart_folder_results
DummyId == "00000000-0000-0000-0000-000000000000"
TempFolder(rs) == FolderArg(DummyId, None, rs)

----------------------------------------------------------------------------
(* Validation.                                                             *)

\* Variant: the list of types without saved_filter
ValidTypesWithoutSavedFilter ==
    {"tag_contains", "node_type", "parent_node", "parent_ancestor", "task_status",
     "task_priority", "title_contains", "has_children", "due_date", "earliest_start"}
ValidTypes == {"tag_contains", "node_type", "parent_node", "parent_ancestor",
               "task_status", "task_priority", "title_contains", "has_children",
               "due_date", "earliest_start", "saved_filter"}

Error(i, what) == [condition |-> i, error |-> what]

\* the body of the loop "for i, condition in enumerate(conditions)"
ConditionErrors(i, condition) ==
    IF condition.type = "" THEN <<Error(i, "missing type")>>
    ELSE (IF condition.type \notin ValidTypes THEN <<Error(i, "invalid type")>> ELSE <<>>)
         \o (IF condition.operator = "" THEN <<Error(i, "missing operator")>>
             ELSE IF condition.operator \notin NoValuesOperators /\ condition.values = <<>>
                  THEN <<Error(i, "empty values")>>
             ELSE <<>>)

RECURSIVE ErrorsFrom(_, _)
ErrorsFrom(conditions, i) ==
    IF i > Len(conditions) THEN <<>>
    ELSE ConditionErrors(i, conditions[i]) \o ErrorsFrom(conditions, i + 1)

ValidateRules(rs) ==
    (IF GetLogic(rs) \notin {"AND", "OR"} THEN <<Error(0, "logic")>> ELSE <<>>)
    \o ErrorsFrom(GetConditions(rs), 1)

----------------------------------------------------------------------------
(* A populated store: two users, a tree of depth 3, tags, tasks with       *)
(* dates, a template and a smart folder.                                   *)

SeedNodes ==
    [n \in NodeIds |->
        CASE n = "f1" -> NodeRow("u1", None, "folder", CharsOf("ab"))
          [] n = "f2" -> NodeRow("u1", "f1", "folder", CharsOf("b"))
          [] n = "t1" -> TaskRow("u1", "f2", CharsOf("Ab"), "todo", "high",
                                 Ts(Today, TicksPerDay - 1), NullTs)
          [] n = "t2" -> TaskRow("u1", "f1", CharsOf("b"), "done", "low",
                                 Ts(Today + 1, 0), Ts(Today, 0))
          [] n = "n1" -> NodeRow("u1", None, "note", CharsOf("a"))
          [] n = "tp" -> NodeRow("u1", "f1", "template", CharsOf("ab"))
          [] n = "sf" -> SmartFolderRow("u1", None, CharsOf("a"), None, DefaultRules)
          [] n = "g1" -> NodeRow("u2", None, "folder", CharsOf("ab"))
          [] n = "g2" -> TaskRow("u2", "g1", CharsOf("ab"), "todo", "high",
                                 Ts(Today, 1), NullTs)]

SeedNodeTags == {<<"t1", "ta">>, <<"t1", "tb">>, <<"t2", "ta">>, <<"n1", "tb">>,
                 <<"tp", "ta">>, <<"tp", "tb">>, <<"sf", "ta">>, <<"g2", "tc">>}

\* the conditions evaluated alone
CondPool ==
    {Cond("node_type", "equals", <<"task">>), Cond("node_type", "in", <<"task", "note">>),
     Cond("node_type", "not_equals", <<"task">>), Cond("node_type", "equals", <<"template">>),
     Cond("node_type", "equals", <<"smart_folder">>), Cond("node_type", "equals", <<"zzz">>),
     Cond("node_type", "like", <<"task">>), Cond("node_type", "is_null", <<>>)}
    \cup
    {Cond("tag_contains", "any", <<"ta">>), Cond("tag_contains", "any", <<"ta", "tb">>),
     Cond("tag_contains", "any", <<"tc">>), Cond("tag_contains", "all", <<"tb">>),
     Cond("tag_contains", "all", <<"ta", "tb">>), Cond("tag_contains", "all", <<"ta", "ta">>),
     Cond("tag_contains", "all", <<"ta", "tb", "ta">>), Cond("tag_contains", "all", <<"ta", "tc">>),
     Cond("tag_contains", "all", <<"ta", "bad">>), Cond("tag_contains", "equals", <<"ta">>)}
    \cup
    {Cond("parent_node", "equals", <<"f1">>), Cond("parent_node", "in", <<"f1", "f2">>),
     Cond("parent_node", "equals", <<"g1">>), Cond("parent_node", "equals", <<"bad">>),
     Cond("parent_node", "any", <<"f1">>)}
    \cup
    {Cond("parent_ancestor", "equals", <<x>>) : x \in NodeIds \cup {GhostId, "bad"}}
    \cup
    {Cond("parent_ancestor", "in", <<"f2", "g1">>), Cond("parent_ancestor", "in", <<"n1", "t1">>),
     Cond("parent_ancestor", "any", <<"f1">>)}
    \cup
    {Cond("task_status", "equals", <<"todo">>), Cond("task_status", "in", <<"todo", "in_progress">>),
     Cond("task_status", "not_in", <<"done">>), Cond("task_status", "equals", <<"bogus">>),
     Cond("task_status", "in", <<"todo", "bogus">>), Cond("task_status", "not_equals", <<"todo">>),
     Cond("task_priority", "equals", <<"high">>), Cond("task_priority", "in", <<"low", "high">>),
     Cond("task_priority", "not_in", <<"low">>), Cond("task_priority", "equals", <<"bogus">>)}
    \cup
    {Cond("title_contains", "contains", <<"a">>), Cond("title_contains", "contains", <<"_b">>),
     Cond("title_contains", "equals", <<"ab">>), Cond("title_contains", "any", <<"a">>),
     Cond("has_children", "equals", <<"true">>), Cond("has_children", "equals", <<"TRUE">>),
     Cond("has_children", "equals", <<"false">>), Cond("has_children", "in", <<"true">>)}
    \cup
    {Cond(t, o, <<>>) : t \in {"due_date", "earliest_start"}, o \in NoValuesOperators}
    \cup
    {Cond("due_date", "overdue_by_days", <<"1">>), Cond("due_date", "due_in_days", <<"1">>),
     Cond("due_date", "due_in_days", <<"soon">>), Cond("due_date", "within_last_days", <<"1">>),
     Cond("due_date", "on", <<"2024-06-15">>), Cond("due_date", "on", <<"today">>),
     Cond("due_date", "after", <<"2024-06-15">>), Cond("due_date", "between", <<"2024-06-15">>),
     Cond("due_date", "between", <<"2024-06-15", "2024-06-16">>),
     Cond("due_date", "equals", <<"2024-06-15">>), Cond("due_date", "equals", <<"1">>),
     Cond("earliest_start", "overdue_by_days", <<"1">>),
     Cond("earliest_start", "starts_within_days", <<"1">>),
     Cond("earliest_start", "before", <<"2024-06-16">>)}
    \cup
    {Cond("saved_filter", "equals", <<x>>) : x \in RuleIds \cup {GhostId, "bad", ""}}
    \cup
    {Cond("saved_filter", "is_null", <<>>), Cond("bogus", "equals", <<"task">>)}

\* the conditions evaluated together with another one
PairPool ==
    {Cond("node_type", "in", <<"task">>), Cond("node_type", "equals", <<"zzz">>),
     Cond("due_date", "is_today", <<>>), Cond("tag_contains", "any", <<"ta">>),
     Cond("tag_contains", "all", <<"ta", "tb">>), Cond("parent_ancestor", "equals", <<"f1">>),
     Cond("parent_ancestor", "equals", <<"n1">>), Cond("task_status", "equals", <<"bogus">>),
     Cond("task_status", "in", <<"todo", "in_progress">>), Cond("has_children", "equals", <<"false">>),
     Cond("saved_filter", "equals", <<"r1">>), Cond("saved_filter", "equals", <<"r2">>),
     Cond("saved_filter", "equals", <<GhostId>>), Cond("bogus", "equals", <<"task">>)}

\* conditions a stored rule can carry because create_rule stores any dict
MalformedPool ==
    {Cond("", "equals", <<"task">>), Cond("node_type", "", <<"task">>),
     Cond("node_type", "equals", <<>>), Cond("saved_filter", "", <<GhostId>>)}

Logics == {"AND", "OR"}

BodyPool ==
    {Body(<<c>>, l) : c \in CondPool \cup MalformedPool, l \in Logics}
    \cup {Body(<<c, d>>, l) : c \in PairPool, d \in PairPool, l \in Logics}
    \cup {Body(<<>>, l) : l \in Logics}
    \cup {EmptyDict, Body(<<Cond("node_type", "equals", <<"task">>)>>, Missing),
          Body(<<Cond("node_type", "equals", <<"task">>)>>, "and")}

\* the bodies of the rules that saved_filter conditions refer to
TargetPool ==
    {Body(<<Cond("node_type", "equals", <<"task">>)>>, "AND"),
     Body(<<Cond("tag_contains", "any", <<"tc">>), Cond("parent_ancestor", "equals", <<"g1">>)>>, "OR"),
     Body(<<Cond("saved_filter", "equals", <<"r1">>)>>, "AND"),
     Body(<<Cond("saved_filter", "equals", <<"r2">>)>>, "OR"),
     Body(<<Cond("saved_filter", "equals", <<GhostId>>)>>, "AND"),
     DefaultRules}

\* who owns a rule and who may see it
Visibilities == {<<"u1", FALSE, FALSE>>, <<"u2", TRUE, FALSE>>,
                 <<"u2", FALSE, TRUE>>, <<"u2", FALSE, FALSE>>}
RulePool(bodies) == {RuleRow(v[1], v[2], v[3], b) : v \in Visibilities, b \in bodies}

\* the smart folder keeps its legacy rules when it subscribes to a rule
LegacyRules == Body(<<Cond("node_type", "equals", <<"note">>)>>, "AND")

RefersTo(b, r) ==
    \E i \in DOMAIN GetConditions(b) :
        /\ GetConditions(b)[i].type = "saved_filter"
        /\ GetConditions(b)[i].values # <<>>
        /\ GetConditions(b)[i].values[1] = r

Idle == [op |-> "idle", target |-> None, user |-> None, rules |-> NullRules]

----------------------------------------------------------------------------
(* Specification Spec: the contents of a smart folder are requested over   *)
(* a populated store.  The folder either carries the rule body inline      *)
(* (only validated bodies are ever stored inline) or subscribes to rule    *)
(* r1, which carries it.                                                   *)

SmartFolders == {n \in Existing : nodes[n].node_type = "smart_folder"}

\* GET /nodes/{smart_folder_id}/contents with the default offset and a limit
\* that the result fits in
GetSmartFolderContents(smart_folder_id, current_user) ==
    /\ call' = [Idle EXCEPT !.op = "contents", !.target = smart_folder_id,
                            !.user = current_user]
    /\ result' = IF /\ smart_folder_id \in SmartFolders
                    /\ nodes[smart_folder_id].owner_id = current_user
                 THEN EvaluateSmartFolder(StoredFolder(smart_folder_id), current_user)
                 ELSE [status |-> "404", nodes |-> {}]
    /\ UNCHANGED <<nodes, node_tags, rules, now, stack, notes, inflight>>

Init ==
    \E b \in BodyPool, by_rule \in BOOLEAN :
      \E r1 \in (IF by_rule THEN RulePool({b})
                 ELSE IF RefersTo(b, "r1") THEN RulePool(TargetPool) \cup {NoRule}
                 ELSE {NoRule}) :
        \E r2 \in (IF RefersTo(b, "r2") \/ RefersTo(r1.rule_data, "r2")
                   THEN RulePool(TargetPool) \cup {NoRule} ELSE {NoRule}) :
          /\ by_rule \/ ValidateRules(b) = <<>>
          /\ rules = [r \in RuleIds |-> IF r = "r1" THEN r1 ELSE r2]
          /\ nodes = [SeedNodes EXCEPT !["sf"].rule_id = IF by_rule THEN "r1" ELSE None,
                                       !["sf"].rules = IF by_rule THEN LegacyRules ELSE b]
          /\ node_tags = SeedNodeTags
          /\ now = Ts(Today, 1)
          /\ call = Idle
          /\ result = NoResult
          /\ stack = <<>>
          /\ notes = NoNotes
          /\ inflight = NoRequests

Next == \E f \in SmartFolders, u \in Users : GetSmartFolderContents(f, u)

Spec == Init /\ [][Next]_vars

----------------------------------------------------------------------------
(* What the claims speak about.                                            *)

\* a contents request was answered with a result
Evaluated == call.op = "contents" /\ result.status = "ok"
F == call.target
U == call.user
ByRule == nodes[F].rule_id # None
\* the rule body the folder is meant to show: the subscribed rule's, else inline
EffectiveBody == IF ByRule THEN rules[nodes[F].rule_id].rule_data ELSE nodes[F].rules
EffectiveConditions == GetConditions(EffectiveBody)
\* the subscribed rule can be read by the user
Resolves == ~ByRule \/ VisibleRule(nodes[F].rule_id, U)
\* the nodes an evaluation may return at all
Eligible == {n \in Existing : nodes[n].owner_id = U /\ n # F /\ nodes[n].node_type # "template"}
\* the match set of the i-th condition
Matches(i) == BuildConditionFilter(EffectiveConditions[i], U, 0)
SingleCondition == Len(EffectiveConditions) = 1
TheCondition == EffectiveConditions[1]

----------------------------------------------------------------------------
(* Claims checked under Spec.                                              *)

\* C1: a smart folder whose effective rule body (the subscribed rule's or the
\* inline one) has an empty conditions list evaluates to the empty list,
\* whatever the logic.
C1_EmptyConditionsMatchNothing ==
    (Evaluated /\ EffectiveConditions = <<>>) => result.nodes = {}

\* a saved_filter condition that carries an operator and a values[0] which is
\* not a UUID, names no rule, or names a rule the user cannot see
BrokenReference(c) ==
    /\ c.type = "saved_filter"
    /\ c.operator # ""
    /\ c.values # <<>>
    /\ \/ c.values[1] \notin RuleIds
       \/ ~rules[c.values[1]].exists
       \/ /\ rules[c.values[1]].owner_id # U
          /\ ~rules[c.values[1]].is_public
          /\ ~rules[c.values[1]].is_system

C3_OnlyOwnEligibleNodes ==
    Evaluated =>
        \A n \in result.nodes : /\ nodes[n].owner_id = U
                                /\ n # F
                                /\ nodes[n].node_type # "template"

C3_Witness ==
    /\ Evaluated
    /\ ByRule
    /\ rules["r1"].owner_id # U
    /\ rules["r1"].is_public
    /\ EffectiveConditions = <<Cond("saved_filter", "equals", <<"r2">>)>>
    /\ rules["r2"].owner_id # U
    /\ RefersTo(rules["r2"].rule_data, "r2") = FALSE
    /\ \E i \in DOMAIN GetConditions(rules["r2"].rule_data) :
          GetConditions(rules["r2"].rule_data)[i] = Cond("parent_ancestor", "equals", <<"g1">>)
    /\ VisibleRule("r2", U)
    /\ result.nodes = {}

\* C4: when every condition yields a filter, AND returns exactly the eligible
\* nodes in every condition's match set and OR exactly those in at least one;
\* node_type in [task] AND due_date is_today returns only the task due today.
C4_AndOrComposition ==
    (/\ Evaluated
     /\ Resolves
     /\ EffectiveConditions # <<>>
     /\ \A i \in DOMAIN EffectiveConditions : Matches(i).kind = "filter")
    => /\ GetLogic(EffectiveBody) = "AND" =>
            result.nodes = {n \in Eligible :
                              \A i \in DOMAIN EffectiveConditions : n \in Matches(i).ids}
       /\ GetLogic(EffectiveBody) = "OR" =>
            result.nodes = {n \in Eligible :
                              \E i \in DOMAIN EffectiveConditions : n \in Matches(i).ids}
       /\ (/\ GetLogic(EffectiveBody) = "AND"
           /\ EffectiveConditions = <<Cond("node_type", "in", <<"task">>),
                                      Cond("due_date", "is_today", <<>>)>>)
          => result.nodes = {"t1"}

C4_Witness ==
    /\ Evaluated
    /\ GetLogic(EffectiveBody) = "OR"
    /\ EffectiveConditions = <<Cond("node_type", "equals", <<"zzz">>),
                               Cond("tag_contains", "any", <<"ta">>)>>
    /\ result.nodes = {"t1", "t2"}


\* the parent chain of n, as far as it goes (at most one step per node)
RECURSIVE ProperAncestors(_, _)
ProperAncestors(n, fuel) ==
    IF fuel = 0 \/ n \notin Existing \/ nodes[n].parent_id = None THEN {}
    ELSE {nodes[n].parent_id} \cup ProperAncestors(nodes[n].parent_id, fuel - 1)
ReachesUp(n, x) == x \in ProperAncestors(n, Cardinality(NodeIds))

\* C5: a rule whose only condition is parent_ancestor equals X returns exactly
\* the eligible nodes that reach X through one or more parent links, and never
\* X, whether X has no children, only children, or deeper descendants.
C5_AncestorMatchesExactlyDescendants ==
    (/\ Evaluated
     /\ Resolves
     /\ SingleCondition
     /\ TheCondition.type = "parent_ancestor"
     /\ TheCondition.operator = "equals"
     /\ Len(TheCondition.values) = 1
     /\ TheCondition.values[1] \in Existing)
    => /\ TheCondition.values[1] \notin result.nodes
       /\ result.nodes = {n \in Eligible : ReachesUp(n, TheCondition.values[1])}

TagsOf(n) == {t \in TagIds \cup {GhostId} : <<n, t>> \in node_tags}

C8_TaskConditionsReturnOnlyTasks ==
    (/\ Evaluated
     /\ SingleCondition
     /\ TheCondition.type \in {"task_status", "task_priority", "due_date", "earliest_start"})
    => \A n \in result.nodes : nodes[n].node_type = "task"

\* C10: a validated rule body, persisted as a Rule and evaluated through a
\* smart folder's rule_id, returns the same node set as the same body
\* evaluated in memory as the folder's inline rules.
C10_PersistedEqualsInMemory ==
    (/\ Evaluated
     /\ ByRule
     /\ Resolves
     /\ ValidateRules(EffectiveBody) = <<>>)
    => result = EvaluateSmartFolder(FolderArg(F, None, EffectiveBody), U)


----------------------------------------------------------------------------
(* Specification SpecRec: one evaluation, call by call.  stack holds one   *)
(* frame for evaluate_smart_folder and one for every _build_saved_filter   *)
(* call that is waiting for the conditions of the rule it resolved.        *)

Frame(rule_id, body) ==
    [rule_id |-> rule_id, conditions |-> GetConditions(body), logic |-> GetLogic(body),
     i |-> 1, acc |-> <<>>]

Top == stack[Len(stack)]
Evaluating == call.op = "evaluating"

\* the condition is dispatched to _build_saved_filter, which resolves a rule
\* and goes on to build the filters of that rule's conditions
EntersRule(c, owner_id) ==
    /\ c.type = "saved_filter"
    /\ c.operator # ""
    /\ c.values # <<>>
    /\ c.values[1] # ""
    /\ IsUUID(c.values[1])
    /\ VisibleRule(c.values[1], owner_id)
    /\ Truthy(rules[c.values[1]].rule_data)

\* evaluate_smart_folder up to the loop over the conditions (lines 22-55)
BeginEvaluate(smart_folder_id, current_user) ==
    LET smart_folder == StoredFolder(smart_folder_id)
        by_rule == smart_folder.rule_id # None
        rule_body == IF by_rule THEN rules[smart_folder.rule_id].rule_data
                     ELSE smart_folder.rules
        returns_early ==
            \/ by_rule /\ (~VisibleRule(smart_folder.rule_id, current_user) \/ ~Truthy(rule_body))
            \/ ~by_rule /\ (~Truthy(rule_body) \/ GetConditions(rule_body) = <<>>)
    IN
    /\ call.op = "idle"
    /\ smart_folder_id \in SmartFolders
    /\ nodes[smart_folder_id].owner_id = current_user
    /\ call' = [Idle EXCEPT !.op = IF returns_early THEN "contents" ELSE "evaluating",
                            !.target = smart_folder_id, !.user = current_user]
    /\ result' = IF returns_early THEN Returned({}) ELSE NoResult
    /\ stack' = IF returns_early THEN <<>> ELSE <<Frame(None, rule_body)>>
    /\ UNCHANGED <<nodes, node_tags, rules, now, notes, inflight>>

\* _build_condition_filter for a condition that is answered without
\* descending into another rule: its filter is appended unless it is None
BuildLeaf ==
    LET c == Top.conditions[Top.i]
        f == BuildConditionFilter(c, call.user, 0)
    IN
    /\ Evaluating
    /\ Top.i <= Len(Top.conditions)
    /\ ~EntersRule(c, call.user)
    /\ IF f.kind = "error"
       THEN /\ stack' = <<>>
            /\ result' = Failed
            /\ call' = [call EXCEPT !.op = "contents"]
       ELSE /\ stack' = [stack EXCEPT ![Len(stack)].i = @ + 1,
                                      ![Len(stack)].acc = IF f.kind = "none" THEN @
                                                          ELSE Append(@, f)]
            /\ UNCHANGED <<result, call>>
    /\ UNCHANGED <<nodes, node_tags, rules, now, notes, inflight>>

\* _build_saved_filter resolved the rule and calls _build_condition_filter for
\* the rule's conditions: one more nested call
EnterRule ==
    LET c == Top.conditions[Top.i]
    IN
    /\ Evaluating
    /\ Top.i <= Len(Top.conditions)
    /\ EntersRule(c, call.user)
    /\ Len(stack) - 1 < RecursionLimit
    /\ stack' = Append(stack, Frame(c.values[1], rules[c.values[1]].rule_data))
    /\ UNCHANGED <<nodes, node_tags, rules, now, call, result, notes, inflight>>

\* the nested call that exceeds the interpreter's recursion limit raises
\* RecursionError, which nothing catches: the request fails
RecursionError ==
    LET c == Top.conditions[Top.i]
    IN
    /\ Evaluating
    /\ Top.i <= Len(Top.conditions)
    /\ EntersRule(c, call.user)
    /\ Len(stack) - 1 >= RecursionLimit
    /\ stack' = <<>>
    /\ result' = Failed
    /\ call' = [call EXCEPT !.op = "contents"]
    /\ UNCHANGED <<nodes, node_tags, rules, now, notes, inflight>>

\* what _build_saved_filter returns once its loop is over (lines 353-361)
FrameFilter(frame) ==
    IF frame.acc = <<>> THEN NoFilter ELSE Combine(frame.logic, frame.acc)

\* _build_saved_filter returns to the loop that called it
ReturnFromRule ==
    /\ Evaluating
    /\ Len(stack) > 1
    /\ Top.i > Len(Top.conditions)
    /\ stack' = [SubSeq(stack, 1, Len(stack) - 1) EXCEPT
                    ![Len(stack) - 1].i = @ + 1,
                    ![Len(stack) - 1].acc = IF FrameFilter(Top).kind = "none" THEN @
                                            ELSE Append(@, FrameFilter(Top))]
    /\ UNCHANGED <<nodes, node_tags, rules, now, call, result, notes, inflight>>

\* evaluate_smart_folder after the loop (lines 61-71)
FinishEvaluate ==
    LET query == BaseQuery(StoredFolder(call.target), call.user)
    IN
    /\ Evaluating
    /\ Len(stack) = 1
    /\ Top.i > Len(Top.conditions)
    /\ result' = IF Top.acc # <<>>
                 THEN Returned(query \cap Combine(Top.logic, Top.acc).ids)
                 ELSE Returned(query)
    /\ stack' = <<>>
    /\ call' = [call EXCEPT !.op = "contents"]
    /\ UNCHANGED <<nodes, node_tags, rules, now, notes, inflight>>

\* the rule bodies with a saved_filter condition
ReferringBodies == {b \in BodyPool : \E r \in RuleIds \cup {GhostId, "bad", ""} : RefersTo(b, r)}

InitRec ==
    \E b \in ReferringBodies, by_rule \in BOOLEAN :
      \E r1 \in (IF by_rule THEN RulePool({b})
                 ELSE IF RefersTo(b, "r1") THEN RulePool(TargetPool) \cup {NoRule}
                 ELSE {NoRule}) :
        \E r2 \in (IF RefersTo(b, "r2") \/ RefersTo(r1.rule_data, "r2")
                   THEN RulePool(TargetPool) \cup {NoRule} ELSE {NoRule}) :
          /\ by_rule \/ ValidateRules(b) = <<>>
          /\ rules = [r \in RuleIds |-> IF r = "r1" THEN r1 ELSE r2]
          /\ nodes = [SeedNodes EXCEPT !["sf"].rule_id = IF by_rule THEN "r1" ELSE None,
                                       !["sf"].rules = IF by_rule THEN LegacyRules ELSE b]
          /\ node_tags = SeedNodeTags
          /\ now = Ts(Today, 1)
          /\ call = Idle
          /\ result = NoResult
          /\ stack = <<>>
          /\ notes = NoNotes
          /\ inflight = NoRequests

NextRec ==
    \/ \E f \in SmartFolders, u \in Users : BeginEvaluate(f, u)
    \/ BuildLeaf
    \/ EnterRule
    \/ RecursionError
    \/ ReturnFromRule
    \/ FinishEvaluate

SpecRec == InitRec /\ [][NextRec]_vars

\* C6: evaluation terminates for every content of the rule store: the nested
\* resolution of saved_filter references is bounded, so no evaluation, also
\* of a rule that refers to itself or of two rules that refer to each other,
\* recurses until the recursion limit ends it.
C6_SavedFilterRecursionIsBounded == result.status # "error"

----------------------------------------------------------------------------
(* Specification SpecStore: the API handlers that write rules and smart    *)
(* folders, called by any user in any order on an empty store.             *)

MaxRules == 2
MaxFolders == 1

\* uuid4(): an id that is not in use
NewRuleId == CHOOSE r \in RuleIds : ~rules[r].exists
NewNodeId == CHOOSE n \in NodeIds : ~nodes[n].exists

Request(op, user, target, rs) ==
    [op |-> op, target |-> target, user |-> user, rules |-> rs]
Status(code) == [status |-> code, nodes |-> {}]

\* POST /rules/
CreateRule(current_user, rule_data, is_public) ==
    /\ Cardinality({r \in RuleIds : rules[r].exists}) < MaxRules
    /\ rules' = [rules EXCEPT ![NewRuleId] = RuleRow(current_user, is_public, FALSE, rule_data)]
    /\ call' = Request("create_rule", current_user, NewRuleId, rule_data)
    /\ result' = Status("201")
    /\ UNCHANGED <<nodes, node_tags, now, stack, notes, inflight>>

\* Variant: update_rule that looks the rule up by id and owner only
UpdateRuleIgnoringSystemFlag(current_user, rule_id, rule_data, is_public) ==
    LET found == /\ rules[rule_id].exists
                 /\ rules[rule_id].owner_id = current_user
    IN
    /\ call' = Request("update_rule", current_user, rule_id, rule_data)
    /\ IF found
       THEN /\ rules' = [rules EXCEPT
                   ![rule_id].rule_data = IF rule_data # NullRules THEN rule_data ELSE @,
                   ![rule_id].is_public = IF is_public = "keep" THEN @ ELSE is_public = "true"]
            /\ result' = Status("200")
       ELSE /\ rules' = rules
            /\ result' = Status("404")
    /\ UNCHANGED <<nodes, node_tags, now, stack, notes, inflight>>
\* PUT /rules/{rule_id}; rule_data NullRules and is_public "keep" stand for
\* fields the request leaves out
UpdateRule(current_user, rule_id, rule_data, is_public) ==
    LET found == /\ rules[rule_id].exists
                 /\ rules[rule_id].owner_id = current_user
                 /\ ~rules[rule_id].is_system
    IN
    /\ call' = Request("update_rule", current_user, rule_id, rule_data)
    /\ IF found
       THEN /\ rules' = [rules EXCEPT
                   ![rule_id].rule_data = IF rule_data # NullRules THEN rule_data ELSE @,
                   ![rule_id].is_public = IF is_public = "keep" THEN @ ELSE is_public = "true"]
            /\ result' = Status("200")
       ELSE /\ rules' = rules
            /\ result' = Status("404")
    /\ UNCHANGED <<nodes, node_tags, now, stack, notes, inflight>>

\* DELETE /rules/{rule_id}; node_smart_folders.rule_id is ON DELETE SET NULL
DeleteRule(current_user, rule_id) ==
    LET found == /\ rules[rule_id].exists
                 /\ rules[rule_id].owner_id = current_user
                 /\ ~rules[rule_id].is_system
    IN
    /\ call' = Request("delete_rule", current_user, rule_id, NullRules)
    /\ IF found
       THEN /\ rules' = [rules EXCEPT ![rule_id] = NoRule]
            /\ nodes' = [n \in NodeIds |->
                            IF nodes[n].rule_id = rule_id
                            THEN [nodes[n] EXCEPT !.rule_id = None] ELSE nodes[n]]
            /\ result' = Status("204")
       ELSE /\ UNCHANGED <<rules, nodes>>
            /\ result' = Status("404")
    /\ UNCHANGED <<node_tags, now, stack, notes, inflight>>

\* POST /rules/{rule_id}/duplicate
DuplicateRule(current_user, rule_id) ==
    /\ Cardinality({r \in RuleIds : rules[r].exists}) < MaxRules
    /\ call' = Request("duplicate_rule", current_user, rule_id, NullRules)
    /\ IF VisibleRule(rule_id, current_user)
       THEN /\ rules' = [rules EXCEPT ![NewRuleId] =
                            RuleRow(current_user, FALSE, FALSE, rules[rule_id].rule_data)]
            /\ result' = Status("200")
       ELSE /\ rules' = rules
            /\ result' = Status("404")
    /\ UNCHANGED <<nodes, node_tags, now, stack, notes, inflight>>

\* the parameters of a request on a node
NodeRequest(op, user, target, node_type, parent_id, rule_id, rs) ==
    [op |-> op, target |-> target, user |-> user, rules |-> rs,
     node_type |-> node_type, parent_id |-> parent_id, rule_id |-> rule_id]

\* session.commit() fails on the foreign key nodes.parent_id -> nodes.id
ForeignKeyViolation(parent_id) == parent_id # None /\ parent_id \notin Existing

\* the row create_node builds for each node_type; smart_folder_data.rule_id
\* is not among the arguments of SmartFolder(...)
NewRow(current_user, node_type, parent_id, rs) ==
    CASE node_type = "smart_folder" ->
            SmartFolderRow(current_user, parent_id, CharsOf("a"), None,
                           IF Truthy(rs) THEN rs ELSE DefaultRules)
      [] node_type = "task" ->
            TaskRow(current_user, parent_id, CharsOf("a"), "todo", "medium", NullTs, NullTs)
      [] OTHER -> NodeRow(current_user, parent_id, node_type, CharsOf("a"))

\* POST /nodes/; rule_id None and rs NullRules stand for smart_folder_data
\* fields the request leaves out
CreateNode(current_user, node_type, parent_id, rule_id, rs) ==
    /\ \E n \in NodeIds : ~nodes[n].exists
    /\ call' = NodeRequest("create_node", current_user, NewNodeId, node_type,
                           parent_id, rule_id, rs)
    /\ IF node_type = "smart_folder" /\ rs # NullRules /\ ValidateRules(rs) # <<>>
       THEN /\ nodes' = nodes
            /\ result' = Status("400")
       ELSE IF ForeignKeyViolation(parent_id)
       THEN /\ nodes' = nodes
            /\ result' = Status("500")
       ELSE /\ nodes' = [nodes EXCEPT ![NewNodeId] =
                            NewRow(current_user, node_type, parent_id, rs)]
            /\ result' = Status("200")
    /\ UNCHANGED <<node_tags, rules, now, stack, notes, inflight>>

\* POST /nodes/ with node_type smart_folder at the root
CreateSmartFolder(current_user, rs) ==
    /\ Cardinality(SmartFolders) < MaxFolders
    /\ CreateNode(current_user, "smart_folder", None, None, rs)

\* PUT /nodes/{node_id}; sets_parent says whether parent_id is among the
\* fields the request sets; rule_id None and rs NullRules stand for
\* smart_folder_data fields the request leaves out
UpdateNode(current_user, node_id, sets_parent, parent_id, rule_id, rs) ==
    LET found == /\ node_id \in Existing
                 /\ nodes[node_id].owner_id = current_user
        is_smart_folder == nodes[node_id].node_type = "smart_folder"
    IN
    /\ call' = NodeRequest("update_node", current_user, node_id, None,
                           IF sets_parent THEN parent_id ELSE Missing, rule_id, rs)
    /\ IF ~found THEN
            /\ nodes' = nodes
            /\ result' = Status("404")
       ELSE IF is_smart_folder /\ rule_id # None /\ ~VisibleRule(rule_id, current_user) THEN
            /\ nodes' = nodes
            /\ result' = Status("404")
       ELSE IF is_smart_folder /\ rs # NullRules /\ ValidateRules(rs) # <<>> THEN
            /\ nodes' = nodes
            /\ result' = Status("400")
       ELSE IF sets_parent /\ ForeignKeyViolation(parent_id) THEN
            /\ nodes' = nodes
            /\ result' = Status("500")
       ELSE /\ nodes' = [nodes EXCEPT
                   ![node_id].parent_id = IF sets_parent THEN parent_id ELSE @,
                   ![node_id].rule_id = IF is_smart_folder /\ rule_id # None THEN rule_id ELSE @,
                   ![node_id].rules = IF is_smart_folder /\ rs # NullRules THEN rs ELSE @]
            /\ result' = Status("200")
    /\ UNCHANGED <<node_tags, rules, now, stack, notes, inflight>>

\* PUT /nodes/{node_id} with smart_folder_data only
UpdateSmartFolder(current_user, node_id, rule_id, rs) ==
    UpdateNode(current_user, node_id, FALSE, None, rule_id, rs)

\* PUT /nodes/{smart_folder_id}/rules
UpdateSmartFolderRules(current_user, smart_folder_id, rs) ==
    LET found == /\ smart_folder_id \in SmartFolders
                 /\ nodes[smart_folder_id].owner_id = current_user
    IN
    /\ call' = Request("update_smart_folder_rules", current_user, smart_folder_id, rs)
    /\ IF ~found THEN
            /\ nodes' = nodes
            /\ result' = Status("404")
       ELSE IF ValidateRules(rs) # <<>> THEN
            /\ nodes' = nodes
            /\ result' = Status("400")
       ELSE /\ nodes' = [nodes EXCEPT ![smart_folder_id].rules = rs]
            /\ result' = Status("200")
    /\ UNCHANGED <<node_tags, rules, now, stack, notes, inflight>>

\* the rule bodies the requests carry: two that pass validate_rules and one,
\* with an unknown condition type and an unknown logic, that does not
StoreBodies ==
    {Body(<<Cond("node_type", "equals", <<"task">>)>>, "AND"),
     DefaultRules,
     Body(<<Cond("bogus", "equals", <<"task">>)>>, "XOR")}

InitStore ==
    /\ nodes = [n \in NodeIds |-> NoNode]
    /\ node_tags = {}
    /\ rules = [r \in RuleIds |-> NoRule]
    /\ now = Ts(Today, 1)
    /\ call = Idle
    /\ result = NoResult
    /\ stack = <<>>
    /\ notes = NoNotes
    /\ inflight = NoRequests

NextStore ==
    \/ \E u \in Users, b \in StoreBodies, pub \in BOOLEAN : CreateRule(u, b, pub)
    \/ \E u \in Users, r \in RuleIds, b \in StoreBodies \cup {NullRules},
          pub \in {"keep", "true", "false"} : UpdateRule(u, r, b, pub)
    \/ \E u \in Users, r \in RuleIds : DeleteRule(u, r)
    \/ \E u \in Users, r \in RuleIds : DuplicateRule(u, r)
    \/ \E u \in Users, b \in StoreBodies \cup {NullRules, EmptyDict} : CreateSmartFolder(u, b)
    \/ \E u \in Users, n \in Existing, r \in RuleIds \cup {None},
          b \in StoreBodies \cup {NullRules} : UpdateSmartFolder(u, n, r, b)
    \/ \E u \in Users, n \in Existing, b \in StoreBodies : UpdateSmartFolderRules(u, n, b)

SpecStore == InitStore /\ [][NextStore]_vars

WriteOps == {"create_rule", "update_rule", "duplicate_rule", "create_node",
             "update_node", "update_smart_folder_rules"}

\* C9: after any sequence of rule and smart-folder writes, every persisted
\* rule body (Rule.rule_data and SmartFolder.rules) passes validate_rules,
\* and a request whose body fails validation is rejected.
C9_PersistedBodiesAreValid ==
    /\ \A r \in RuleIds : rules[r].exists => ValidateRules(rules[r].rule_data) = <<>>
    /\ \A n \in SmartFolders :
          nodes[n].rules # NullRules => ValidateRules(nodes[n].rules) = <<>>
    /\ (call.op \in WriteOps /\ call.rules # NullRules /\ ValidateRules(call.rules) # <<>>)
       => result.status = "400"

----------------------------------------------------------------------------
(* Specification SpecSubscribe: users create a smart folder that names a   *)
(* rule, or subscribe an existing folder to one, rule owners change who    *)
(* may see their rules, and the folder's contents are requested.           *)

\* the bodies of the rules a folder can subscribe to
SubscribePool ==
    {Body(<<Cond("due_date", "is_today", <<>>)>>, "AND"),
     Body(<<Cond("node_type", "equals", <<"task">>)>>, "AND"),
     DefaultRules}

InitSubscribe ==
    \E r1 \in RulePool(SubscribePool), r2 \in RulePool({LegacyRules}) \cup {NoRule} :
        /\ nodes = [SeedNodes EXCEPT !["sf"] = NoNode]
        /\ node_tags = {nt \in SeedNodeTags : nt[1] # "sf"}
        /\ rules = [r \in RuleIds |-> IF r = "r1" THEN r1 ELSE r2]
        /\ now = Ts(Today, 1)
        /\ call = Idle
        /\ result = NoResult
        /\ stack = <<>>
        /\ notes = NoNotes
        /\ inflight = NoRequests

NextSubscribe ==
    \/ \E u \in Users, r \in RuleIds \cup {None}, b \in {NullRules, LegacyRules} :
          CreateNode(u, "smart_folder", None, r, b)
    \/ \E u \in Users, n \in SmartFolders, r \in RuleIds \cup {None},
          b \in {NullRules, LegacyRules} : UpdateSmartFolder(u, n, r, b)
    \/ \E u \in Users, r \in RuleIds, pub \in {"true", "false"} :
          UpdateRule(u, r, NullRules, pub)
    \/ \E f \in SmartFolders, u \in Users : GetSmartFolderContents(f, u)

SpecSubscribe == InitSubscribe /\ [][NextSubscribe]_vars

\* create_node answered 200 to a request for a smart folder that names a
\* rule the user can read
CreatedWithRule ==
    /\ call.op = "create_node"
    /\ result.status = "200"
    /\ call.node_type = "smart_folder"
    /\ call.rule_id # None
    /\ VisibleRule(call.rule_id, call.user)

\* C11: after create_node has created a smart folder with
\* smart_folder_data.rule_id = R, R readable by the user, the stored folder
\* references R and its contents are exactly R's matches: for a due_date
\* is_today rule the task due today and not the task due tomorrow.
C11_CreatedFolderShowsRuleMatches ==
    CreatedWithRule =>
        /\ nodes[call.target].rule_id = call.rule_id
        /\ EvaluateSmartFolder(StoredFolder(call.target), call.user)
             = EvaluateSmartFolder(FolderArg(call.target, call.rule_id, NullRules), call.user)
        /\ (call.user = "u1" /\ rules[call.rule_id].rule_data
                                  = Body(<<Cond("due_date", "is_today", <<>>)>>, "AND"))
           => EvaluateSmartFolder(StoredFolder(call.target), call.user) = Returned({"t1"})

\* C13: a folder whose rule_id names a rule that the evaluating user does
\* not own and that is neither public nor system (its owner cleared
\* is_public after the folder subscribed) evaluates to the empty result; the
\* folder's legacy inline rules are not evaluated.
C13_InvisibleRuleGivesEmptyResult ==
    (/\ Evaluated
     /\ ByRule
     /\ \/ ~rules[nodes[F].rule_id].exists
        \/ /\ rules[nodes[F].rule_id].owner_id # U
           /\ ~rules[nodes[F].rule_id].is_public
           /\ ~rules[nodes[F].rule_id].is_system)
    => result.nodes = {}

C13_Witness ==
    /\ Evaluated
    /\ ByRule
    /\ rules[nodes[F].rule_id].exists
    /\ rules[nodes[F].rule_id].owner_id # U
    /\ ~rules[nodes[F].rule_id].is_public
    /\ ~rules[nodes[F].rule_id].is_system
    /\ nodes[F].rules = LegacyRules
    /\ EvaluateSmartFolder(FolderArg(F, None, nodes[F].rules), U).nodes # {}
    /\ result.nodes = {}

----------------------------------------------------------------------------
(* Specification SpecPages: the contents of a smart folder are requested   *)
(* page by page and its current rules are previewed.  Results are lists:   *)
(* the query of evaluate_smart_folder has no ORDER BY, so each execution   *)
(* returns the matching rows in an order the database chooses.             *)

Min(a, b) == IF a <= b THEN a ELSE b
Max(a, b) == IF a >= b THEN a ELSE b

\* Python s[a:b] on a list
PySlice(s, a, b) ==
    LET lo == IF a < 0 THEN Max(Len(s) + a, 0) ELSE Min(a, Len(s))
        hi == IF b < 0 THEN Max(Len(s) + b, 0) ELSE Min(b, Len(s))
    IN  IF hi <= lo THEN <<>> ELSE SubSeq(s, lo + 1, hi)

\* result.scalars().all() of a select without ORDER BY: the rows in any order
RowOrders(S) == {rows \in [1..Cardinality(S) -> S] : Range(rows) = S}

\* limit: int = Query(default=100, le=500) and Query(default=10, le=50)
DefaultLimit == 100
DefaultPreviewLimit == 10
\* offset: int = Query(default=0, ge=0)
Offsets == {0, 1, 2}
Limits == {-1, 0, 1, 2}

PageRequest(op, user, target, limit, offset) ==
    [op |-> op, target |-> target, user |-> user, rules |-> NullRules,
     limit |-> limit, offset |-> offset]
Page(matching_nodes, page) ==
    [status |-> "ok", nodes |-> Range(page), page |-> page,
     matching_nodes |-> matching_nodes]

\* GET /nodes/{smart_folder_id}/contents?limit=&offset=
GetSmartFolderContentsPage(smart_folder_id, current_user, limit, offset) ==
    LET found == /\ smart_folder_id \in SmartFolders
                 /\ nodes[smart_folder_id].owner_id = current_user
        evaluated == EvaluateSmartFolder(StoredFolder(smart_folder_id), current_user)
    IN
    /\ call' = PageRequest("contents", current_user, smart_folder_id, limit, offset)
    /\ IF ~found THEN result' = Status("404")
       ELSE IF evaluated.status # "ok" THEN result' = evaluated
       ELSE \E matching_nodes \in RowOrders(evaluated.nodes) :
               result' = Page(matching_nodes, PySlice(matching_nodes, offset, offset + limit))
    /\ UNCHANGED <<nodes, node_tags, rules, now, stack, notes, inflight>>

\* POST /nodes/{smart_folder_id}/preview?limit=
PreviewSmartFolderRules(smart_folder_id, current_user, limit) ==
    LET found == /\ smart_folder_id \in SmartFolders
                 /\ nodes[smart_folder_id].owner_id = current_user
        evaluated == EvaluateSmartFolder(TempFolder(nodes[smart_folder_id].rules), current_user)
    IN
    /\ call' = PageRequest("preview", current_user, smart_folder_id, limit, 0)
    /\ IF ~found THEN result' = Status("404")
       ELSE IF evaluated.status # "ok" THEN result' = evaluated
       ELSE \E results \in RowOrders(evaluated.nodes) :
               result' = Page(results, PySlice(results, 0, limit))
    /\ UNCHANGED <<nodes, node_tags, rules, now, stack, notes, inflight>>

\* the rule bodies whose results are paged
PagePool ==
    {Body(<<Cond("node_type", "equals", <<"task">>)>>, "AND"),
     Body(<<Cond("tag_contains", "any", <<"ta">>)>>, "AND"),
     Body(<<Cond("title_contains", "contains", <<"a">>)>>, "AND"),
     Body(<<Cond("node_type", "equals", <<"note">>)>>, "AND")}

InitPages ==
    \E b \in PagePool, by_rule \in BOOLEAN :
        /\ nodes = [SeedNodes EXCEPT !["sf"].rule_id = IF by_rule THEN "r1" ELSE None,
                                     !["sf"].rules = IF by_rule THEN LegacyRules ELSE b]
        /\ node_tags = SeedNodeTags
        /\ rules = [r \in RuleIds |-> IF r = "r1" /\ by_rule
                                      THEN RuleRow("u1", FALSE, FALSE, b) ELSE NoRule]
        /\ now = Ts(Today, 1)
        /\ call = Idle
        /\ result = NoResult
        /\ stack = <<>>
        /\ notes = NoNotes
        /\ inflight = NoRequests

NextPages ==
    \/ \E f \in SmartFolders, u \in Users, l \in Limits \cup {DefaultLimit}, o \in Offsets :
          GetSmartFolderContentsPage(f, u, l, o)
    \/ \E f \in SmartFolders, u \in Users, l \in Limits \cup {DefaultPreviewLimit} :
          PreviewSmartFolderRules(f, u, l)

SpecPages == InitPages /\ [][NextPages]_vars

\* what evaluate_smart_folder returns for the stored folder, as a set
FullResult(f, u) == EvaluateSmartFolder(StoredFolder(f), u).nodes

\* C12: a preview of folder F's current rules with limit n >= 0 returns the
\* first n nodes of what evaluate_smart_folder returns for F (n distinct
\* nodes of that result, or all of it when it has fewer): the same rule body
\* (the rule behind rule_id when set, else the legacy rules) and the same
\* exclusions (F itself, templates).
C12_PreviewIsTruncatedEvaluation ==
    (call.op = "preview" /\ result.status = "ok" /\ call.limit >= 0)
    => /\ Range(result.page) \subseteq FullResult(call.target, call.user)
       /\ Len(result.page) = Min(call.limit, Cardinality(FullResult(call.target, call.user)))
       /\ Cardinality(Range(result.page)) = Len(result.page)

\* the elements [o, o+l) of a list
Elements(s, o, l) ==
    IF l <= 0 \/ o >= Len(s) THEN <<>> ELSE SubSeq(s, o + 1, Min(o + l, Len(s)))

C20_Step ==
    /\ (call'.op = "contents" /\ result'.status = "ok")
       => result'.page = Elements(result'.matching_nodes, call'.offset, call'.limit)
    /\ (/\ call.op = "contents" /\ result.status = "ok"
        /\ call'.op = "contents" /\ result'.status = "ok"
        /\ call'.target = call.target /\ call'.user = call.user
        /\ call.limit >= 0 /\ call'.limit >= 0
        /\ call'.offset = call.offset + call.limit)
       => /\ Range(result.page) \cap Range(result'.page) = {}
          /\ (/\ call.offset = 0
              /\ call'.offset + call'.limit >= Cardinality(FullResult(call.target, call.user)))
             => Range(result.page) \cup Range(result'.page)
                  = FullResult(call.target, call.user)

\* C20: a contents request with offset o and limit l returns exactly the
\* elements [o, o+l) of the complete evaluation result, and over an unchanged
\* store the pages fetched at consecutive offsets are disjoint and together
\* make up the complete result.
C20_PagesPartitionTheResult == [][C20_Step]_vars

----------------------------------------------------------------------------
(* Specification SpecValidate: rule bodies are submitted for a preview,    *)
(* which validates them first.                                             *)

Rejected(errors) == [status |-> "400", nodes |-> {}, errors |-> errors]

\* POST /nodes/smart_folder/preview with a limit that the result fits in
PreviewSmartFolderRulesNew(rs, current_user) ==
    LET validation_errors == ValidateRules(rs)
    IN
    /\ call' = Request("preview_rules", current_user, None, rs)
    /\ result' = IF validation_errors # <<>> THEN Rejected(validation_errors)
                 ELSE EvaluateSmartFolder(TempFolder(rs), current_user)
    /\ UNCHANGED <<nodes, node_tags, rules, now, stack, notes, inflight>>

\* the bodies submitted: every condition of the pools alone, under a valid,
\* an unknown and an absent logic, and bodies with further defects
ValidatePool ==
    {Body(<<c>>, l) : c \in CondPool \cup MalformedPool, l \in Logics \cup {"XOR", Missing}}
    \cup StoreBodies
    \cup {Body(<<Cond("saved_filter", "equals", <<"r1">>),
                 Cond("due_date", "is_today", <<>>)>>, "OR"),
          Body(<<Cond("node_type", "equals", <<"task">>)>>, "and"), EmptyDict,
          Body(<<Cond("bogus", "", <<>>)>>, "AND"),
          Body(<<Cond("due_date", "is_today", <<"x">>)>>, "OR"),
          Body(<<Cond("due_date", "is_today", <<>>), Cond("node_type", "equals", <<>>)>>, "AND"),
          Body(<<Cond("node_type", "equals", <<"task">>), Cond("", "", <<>>)>>, "OR"),
          Body(<<Cond("saved_filter", "equals", <<"r1">>)>>, "XOR"),
          Body(<<>>, "XOR"), Body(<<>>, Missing), Body(<<>>, "")}

InitValidate ==
    /\ nodes = SeedNodes
    /\ node_tags = SeedNodeTags
    /\ rules = [r \in RuleIds |-> IF r = "r1" THEN RuleRow("u1", FALSE, FALSE, LegacyRules)
                                  ELSE NoRule]
    /\ now = Ts(Today, 1)
    /\ call = Idle
    /\ result = NoResult
    /\ stack = <<>>
    /\ notes = NoNotes
    /\ inflight = NoRequests

NextValidate == \E b \in ValidatePool, u \in Users : PreviewSmartFolderRulesNew(b, u)

SpecValidate == InitValidate /\ [][NextValidate]_vars

\* the eleven condition types and the nine operators that take no values
SupportedTypes ==
    {"node_type", "tag_contains", "parent_node", "parent_ancestor", "task_status",
     "task_priority", "title_contains", "has_children", "due_date", "earliest_start",
     "saved_filter"}
OperatorsWithoutValues ==
    {"is_today", "is_null", "is_not_null", "is_overdue", "this_week", "next_week",
     "this_month", "yesterday", "tomorrow"}

\* logic is AND or OR (AND when the key is absent), every condition has a
\* supported type and a non-empty operator, and non-empty values unless its
\* operator takes none
WellFormed(b) ==
    /\ b.logic \in {"AND", "OR", Missing}
    /\ \A i \in DOMAIN GetConditions(b) :
          /\ GetConditions(b)[i].type \in SupportedTypes
          /\ GetConditions(b)[i].operator # ""
          /\ \/ GetConditions(b)[i].operator \in OperatorsWithoutValues
             \/ GetConditions(b)[i].values # <<>>

----------------------------------------------------------------------------
(* Further claims checked under Spec.                                      *)

Remove(s, i) == SubSeq(s, 1, i - 1) \o SubSeq(s, i + 1, Len(s))

\* the i-th condition names a type outside the supported set and some other
\* condition of the rule yields a filter
UnknownTypeAmongEffective(i) ==
    /\ EffectiveConditions[i].type # ""
    /\ EffectiveConditions[i].type \notin SupportedTypes
    /\ \E j \in DOMAIN EffectiveConditions : j # i /\ Matches(j).kind = "filter"

\* C15: a condition whose type is outside the supported set makes
\* validate_rules report an error, yet evaluation ignores it: together with
\* other effective conditions, under AND and under OR, the result is that of
\* the same rule without the condition.
C15_UnknownTypeIsIgnored ==
    (Evaluated /\ Resolves) =>
        \A i \in DOMAIN EffectiveConditions :
            UnknownTypeAmongEffective(i) =>
                /\ ValidateRules(EffectiveBody) # <<>>
                /\ result = EvaluateSmartFolder(
                                FolderArg(F, None, Body(Remove(EffectiveConditions, i),
                                                        GetLogic(EffectiveBody))), U)

C15_Witness ==
    /\ Evaluated
    /\ ByRule
    /\ GetLogic(EffectiveBody) = "AND"
    /\ EffectiveConditions = <<Cond("bogus", "equals", <<"task">>),
                               Cond("tag_contains", "any", <<"ta">>)>>
    /\ UnknownTypeAmongEffective(1)
    /\ result.nodes = {"t1", "t2"}

\* C16: task_priority not_in P matches exactly the tasks whose priority is
\* not in P, as task_status not_in S matches exactly the tasks whose status
\* is not in S.
C16_NotInMatchesTheOtherTasks ==
    (/\ Evaluated
     /\ Resolves
     /\ SingleCondition
     /\ TheCondition.operator = "not_in"
     /\ TheCondition.values # <<>>)
    => /\ (TheCondition.type = "task_status"
           /\ Range(TheCondition.values) \subseteq {"todo", "in_progress", "done", "dropped"})
          => result.nodes = {n \in Eligible : /\ nodes[n].node_type = "task"
                                              /\ nodes[n].status \notin Range(TheCondition.values)}
       /\ (TheCondition.type = "task_priority"
           /\ Range(TheCondition.values) \subseteq {"low", "medium", "high", "urgent"})
          => result.nodes = {n \in Eligible : /\ nodes[n].node_type = "task"
                                              /\ nodes[n].priority \notin Range(TheCondition.values)}

----------------------------------------------------------------------------
(* Specification SpecDates: a smart folder with one date condition is read *)
(* while the clock runs from the day before the reference day to the day   *)
(* after it, over tasks whose dates are set or null.                       *)

ExplicitDateOperators == {"on", "before", "after", "between"}

\* every date operator on both fields, with values it can parse
DatePool ==
    {Cond(t, o, <<>>) : t \in {"due_date", "earliest_start"}, o \in NoValuesOperators}
    \cup {Cond(t, o, <<"1">>) : t \in {"due_date", "earliest_start"},
                                o \in OverdueOperators \cup DueOperators \cup RelativeOperators}
    \cup {Cond(t, o, <<"2024-06-15">>) : t \in {"due_date", "earliest_start"},
                                         o \in {"on", "before", "after"}}
    \cup {Cond(t, "between", <<"2024-06-14", "2024-06-16">>) : t \in {"due_date", "earliest_start"}}

\* the instants of the day before the reference day, of that day and of the
\* day after it
Clock == {Ts(d, k) : d \in (Today - 1)..(Today + 1), k \in 0..(TicksPerDay - 1)}

InitDates ==
    \E c \in DatePool, t \in Clock,
       due \in {NullTs, Ts(Today, TicksPerDay - 2), Ts(Today, TicksPerDay - 1)},
       start \in {NullTs, Ts(Today, 0)} :
        /\ nodes = [SeedNodes EXCEPT !["sf"].rules = Body(<<c>>, "AND"),
                                     !["t1"].due_at = due,
                                     !["t1"].earliest_start_at = start]
        /\ node_tags = SeedNodeTags
        /\ rules = [r \in RuleIds |-> NoRule]
        /\ now = t
        /\ call = Idle
        /\ result = NoResult
        /\ stack = <<>>
        /\ notes = NoNotes
        /\ inflight = NoRequests

\* time passes between two requests
Tick ==
    /\ now + 1 \in Clock
    /\ now' = now + 1
    /\ call' = Idle
    /\ result' = NoResult
    /\ UNCHANGED <<nodes, node_tags, rules, stack, notes, inflight>>

NextDates ==
    \/ Tick
    \/ \E f \in SmartFolders, u \in Users : GetSmartFolderContents(f, u)

SpecDates == InitDates /\ [][NextDates]_vars

\* the date column a condition type reads
TargetField(n) ==
    IF TheCondition.type = "due_date" THEN nodes[n].due_at ELSE nodes[n].earliest_start_at

\* C17: due_date is_today (earliest_start is_today) matches a task exactly
\* when the UTC date of its due_at (earliest_start_at) is the UTC date of
\* now, whatever the time of day of either: a task due at 23:59:59 on day D
\* is matched at every instant of D and at none of D-1 and D+1.
C17_IsTodayMatchesTheCalendarDay ==
    (/\ Evaluated
     /\ SingleCondition
     /\ TheCondition.type \in {"due_date", "earliest_start"}
     /\ TheCondition.operator = "is_today")
    => result.nodes = {n \in Eligible : /\ nodes[n].node_type = "task"
                                        /\ TargetField(n) # NullTs
                                        /\ TargetField(n) \div TicksPerDay = now \div TicksPerDay}

C17_Witness ==
    /\ Evaluated
    /\ U = "u1"
    /\ TheCondition = Cond("due_date", "is_today", <<>>)
    /\ nodes["t1"].due_at = Today * TicksPerDay + TicksPerDay - 1
    /\ now = Today * TicksPerDay
    /\ result.nodes = {"t1"}

\* C18: under every date operator other than is_null a task whose target
\* date field is null is not matched by a due_date / earliest_start
\* condition; is_null matches exactly the tasks whose target field is null
\* and is_not_null exactly the tasks whose target field is set.
C18_NullDatesMatchOnlyIsNull ==
    (/\ Evaluated
     /\ SingleCondition
     /\ TheCondition.type \in {"due_date", "earliest_start"}
     /\ TheCondition.operator \in NoValuesOperators \cup OverdueOperators \cup DueOperators
                                  \cup RelativeOperators \cup ExplicitDateOperators)
    => /\ TheCondition.operator # "is_null"
          => \A n \in result.nodes : nodes[n].node_type = "task" => TargetField(n) # NullTs
       /\ TheCondition.operator = "is_null"
          => result.nodes = {n \in Eligible : nodes[n].node_type = "task"
                                              /\ TargetField(n) = NullTs}
       /\ TheCondition.operator = "is_not_null"
          => result.nodes = {n \in Eligible : nodes[n].node_type = "task"
                                              /\ TargetField(n) # NullTs}

----------------------------------------------------------------------------
(* Specification SpecTree: two users create nodes under a parent, set the  *)
(* parent of a node with update_node and move nodes with move_node.        *)

MaxNodes == 2

\* validate_move: walk up from new_parent_id through the rows the user
\* owns; "400" when node_id is met, "ok" when the walk ends, and no return
\* when the walk runs round a cycle that does not hold node_id
RECURSIVE WalkUp(_, _, _, _)
WalkUp(node_id, current_parent, current_user, fuel) ==
    IF current_parent = None THEN "ok"
    ELSE IF current_parent = node_id THEN "400"
    ELSE IF fuel = 0 THEN "no return"
    ELSE WalkUp(node_id,
                IF current_parent \in Existing /\ nodes[current_parent].owner_id = current_user
                THEN nodes[current_parent].parent_id ELSE None,
                current_user, fuel - 1)
ValidateMove(node_id, new_parent_id, current_user) ==
    WalkUp(node_id, new_parent_id, current_user, Cardinality(NodeIds))

\* POST /nodes/move
MoveNode(current_user, node_id, new_parent_id) ==
    LET found == node_id \in Existing /\ nodes[node_id].owner_id = current_user
        validated == IF new_parent_id # None
                     THEN ValidateMove(node_id, new_parent_id, current_user) ELSE "ok"
    IN
    /\ call' = NodeRequest("move_node", current_user, node_id, None, new_parent_id,
                           None, NullRules)
    /\ IF ~found THEN
            /\ nodes' = nodes
            /\ result' = Status("404")
       ELSE IF validated # "ok" THEN
            /\ nodes' = nodes
            /\ result' = Status(validated)
       ELSE IF ForeignKeyViolation(new_parent_id) THEN
            /\ nodes' = nodes
            /\ result' = Status("500")
       ELSE /\ nodes' = [nodes EXCEPT ![node_id].parent_id = new_parent_id]
            /\ result' = Status("200")
    /\ UNCHANGED <<node_tags, rules, now, stack, notes, inflight>>

InitTree ==
    /\ nodes = [n \in NodeIds |-> NoNode]
    /\ node_tags = {}
    /\ rules = [r \in RuleIds |-> NoRule]
    /\ now = Ts(Today, 1)
    /\ call = Idle
    /\ result = NoResult
    /\ stack = <<>>
    /\ notes = NoNotes
    /\ inflight = NoRequests

\* the parents a request can name: a node in the store, none, or an id that
\* names no node
Parents == Existing \cup {None, GhostId}

NextTree ==
    \/ \E u \in Users, p \in Parents :
          /\ Cardinality(Existing) < MaxNodes
          /\ CreateNode(u, "folder", p, None, NullRules)
    \/ \E u \in Users, n \in Existing, p \in Parents :
          UpdateNode(u, n, TRUE, p, None, NullRules)
    \/ \E u \in Users, n \in Existing, p \in Parents : MoveNode(u, n, p)

SpecTree == InitTree /\ [][NextTree]_vars

\* C19: after any sequence of create_node, update_node and move_node calls
\* every node that has a parent has the owner of that parent, and a request
\* that would place a node under another user's node or under a node that
\* does not exist is rejected.
C19_SubtreeHasOneOwner ==
    /\ \A n \in Existing :
          nodes[n].parent_id # None
          => /\ nodes[n].parent_id \in Existing
             /\ nodes[nodes[n].parent_id].owner_id = nodes[n].owner_id
    /\ (/\ call.op \in {"create_node", "update_node", "move_node"}
        /\ call.parent_id \notin {None, Missing}
        /\ \/ call.parent_id \notin Existing
           \/ nodes[call.parent_id].owner_id # call.user)
       => result.status # "200"

----------------------------------------------------------------------------
(* Specification SpecMigrate: two smart folders, one of them possibly      *)
(* subscribed to a rule, are read through get_effective_rule_data and      *)
(* through the contents endpoint, their legacy rules are migrated to Rule  *)
(* entities, and rule owners delete their rules.                           *)

\* the two tables the migration service reads and writes
Db == [nodes |-> nodes, rules |-> rules]

\* uuid4() for a Rule added to the session
FreshRuleId(db) == CHOOSE r \in RuleIds : ~db.rules[r].exists

\* get_effective_rule_data: the rule is looked up by id alone
GetEffectiveRuleData(smart_folder) ==
    LET legacy == IF Truthy(smart_folder.rules) THEN smart_folder.rules ELSE DefaultRules
    IN
    IF smart_folder.rule_id # None
    THEN IF rules[smart_folder.rule_id].exists
         THEN rules[smart_folder.rule_id].rule_data
         ELSE legacy
    ELSE legacy

Outcome(raised, rule, db) == [raised |-> raised, rule |-> rule, db |-> db]

\* migrate_smart_folder_rules_to_rule_entity; the legacy rules stay on the
\* folder
MigrateSmartFolderRulesToRuleEntity(db, smart_folder_id) ==
    LET smart_folder == db.nodes[smart_folder_id]
        id == FreshRuleId(db)
    IN
    IF ~Truthy(smart_folder.rules) \/ smart_folder.rule_id # None
    THEN Outcome(TRUE, None, db)
    ELSE Outcome(FALSE, id,
                 [nodes |-> [db.nodes EXCEPT ![smart_folder_id].rule_id = id],
                  rules |-> [db.rules EXCEPT ![id] =
                                RuleRow(smart_folder.owner_id, FALSE, FALSE,
                                        smart_folder.rules)]])

\* the loop of migrate_all_legacy_smart_folders: a folder whose migration
\* raises is skipped
RECURSIVE MigrateEach(_, _, _)
MigrateEach(db, legacy_folders, i) ==
    IF i > Len(legacy_folders) THEN db
    ELSE MigrateEach(MigrateSmartFolderRulesToRuleEntity(db, legacy_folders[i]).db,
                     legacy_folders, i + 1)

\* ensure_smart_folder_has_rule_entity
EnsureSmartFolderHasRuleEntity(db, smart_folder_id) ==
    LET smart_folder == db.nodes[smart_folder_id]
        has_rule == smart_folder.rule_id # None /\ db.rules[smart_folder.rule_id].exists
        cleared == IF smart_folder.rule_id # None
                   THEN [db EXCEPT !.nodes[smart_folder_id].rule_id = None]
                   ELSE db
        id == FreshRuleId(cleared)
    IN
    IF has_rule THEN Outcome(FALSE, smart_folder.rule_id, db)
    ELSE IF Truthy(smart_folder.rules)
    THEN MigrateSmartFolderRulesToRuleEntity(cleared, smart_folder_id)
    ELSE Outcome(FALSE, id,
                 [nodes |-> [cleared.nodes EXCEPT ![smart_folder_id].rule_id = id],
                  rules |-> [cleared.rules EXCEPT ![id] =
                                RuleRow(smart_folder.owner_id, FALSE, FALSE,
                                        DefaultRules)]])

FreeRuleIds == {r \in RuleIds : ~rules[r].exists}
LegacyFolders == {f \in SmartFolders : nodes[f].rules # NullRules /\ nodes[f].rule_id = None}

ServiceCall(op, target) == Request(op, None, target, NullRules)
Resolved(body) == [status |-> "ok", nodes |-> {}, body |-> body]

\* a caller of get_effective_rule_data
ReadEffectiveRuleData(smart_folder_id) ==
    /\ call' = ServiceCall("get_effective_rule_data", smart_folder_id)
    /\ result' = Resolved(GetEffectiveRuleData(StoredFolder(smart_folder_id)))
    /\ UNCHANGED <<nodes, node_tags, rules, now, stack, notes, inflight>>

\* a caller of a migration function that commits what the function did, or
\* sees the ValueError
Commit(op, smart_folder_id, outcome) ==
    /\ call' = ServiceCall(op, smart_folder_id)
    /\ nodes' = outcome.db.nodes
    /\ rules' = outcome.db.rules
    /\ result' = Status(IF outcome.raised THEN "ValueError" ELSE "ok")
    /\ UNCHANGED <<node_tags, now, stack, notes, inflight>>

MigrateSmartFolder(smart_folder_id) ==
    /\ FreeRuleIds # {}
    /\ Commit("migrate_smart_folder_rules_to_rule_entity", smart_folder_id,
              MigrateSmartFolderRulesToRuleEntity(Db, smart_folder_id))

EnsureRuleEntity(smart_folder_id) ==
    /\ FreeRuleIds # {}
    /\ Commit("ensure_smart_folder_has_rule_entity", smart_folder_id,
              EnsureSmartFolderHasRuleEntity(Db, smart_folder_id))

\* migrate_all_legacy_smart_folders; the rows of the query come in any order
MigrateAllLegacySmartFolders ==
    /\ Cardinality(FreeRuleIds) >= Cardinality(LegacyFolders)
    /\ \E legacy_folders \in RowOrders(LegacyFolders) :
          Commit("migrate_all_legacy_smart_folders", None,
                 Outcome(FALSE, None, MigrateEach(Db, legacy_folders, 1)))

\* the bodies of the rule the first folder may subscribe to
MigratePool ==
    {Body(<<Cond("node_type", "equals", <<"task">>)>>, "AND"),
     DefaultRules, EmptyDict}

InitMigrate ==
    \E rs1 \in {DefaultRules, LegacyRules}, rs2 \in {DefaultRules, LegacyRules},
       r1 \in RulePool(MigratePool) \cup {NoRule} :
        /\ nodes = [SeedNodes EXCEPT
                      !["sf"] = SmartFolderRow("u1", None, CharsOf("a"),
                                               IF r1 = NoRule THEN None ELSE "r1", rs1),
                      !["g1"] = SmartFolderRow("u2", None, CharsOf("ab"), None, rs2)]
        /\ node_tags = SeedNodeTags
        /\ rules = [r \in RuleIds |-> IF r = "r1" THEN r1 ELSE NoRule]
        /\ now = Ts(Today, 1)
        /\ call = Idle
        /\ result = NoResult
        /\ stack = <<>>
        /\ notes = NoNotes
        /\ inflight = NoRequests

NextMigrate ==
    \/ \E f \in SmartFolders : ReadEffectiveRuleData(f)
    \/ \E f \in SmartFolders, u \in Users : GetSmartFolderContents(f, u)
    \/ \E f \in SmartFolders : MigrateSmartFolder(f)
    \/ \E f \in SmartFolders : EnsureRuleEntity(f)
    \/ MigrateAllLegacySmartFolders
    \/ \E u \in Users, r \in RuleIds : DeleteRule(u, r)

SpecMigrate == InitMigrate /\ [][NextMigrate]_vars

\* what evaluate_smart_folder reads for folder f and its owner
OwnerOf(f) == nodes[f].owner_id
SeenByOwner(f) ==
    LET r == rules[nodes[f].rule_id]
    IN r.exists /\ (r.owner_id = OwnerOf(f) \/ r.is_public \/ r.is_system)

\* C21: get_effective_rule_data resolves the body evaluate_smart_folder
\* evaluates for the folder's owner: the body of the rule behind rule_id
\* when rule_id is set, and then only if the owner may see that rule, and
\* the legacy inline rules only when rule_id is not set.
C21_OneAuthoritativeBody ==
    call.op = "get_effective_rule_data"
    => IF nodes[call.target].rule_id # None
       THEN /\ SeenByOwner(call.target)
            /\ result.body = rules[nodes[call.target].rule_id].rule_data
       ELSE result.body = nodes[call.target].rules

\* C27: when delete_rule removes the rule a smart folder references, the
\* folder evaluates to the empty set afterwards.
C27_Step ==
    (call'.op = "delete_rule" /\ result'.status = "204")
    => \A f \in SmartFolders :
          nodes[f].rule_id = call'.target
          => EvaluateSmartFolder(StoredFolder(f), OwnerOf(f))'.nodes = {}
C27_DeletedRuleLeavesFolderEmpty == [][C27_Step]_vars

MigrationOps == {"migrate_smart_folder_rules_to_rule_entity",
                 "migrate_all_legacy_smart_folders",
                 "ensure_smart_folder_has_rule_entity"}

\* C28: a migration step changes no folder's evaluation: every smart folder
\* evaluates to the same node set for its owner before and after it.
C28_Step ==
    call'.op \in MigrationOps
    => \A f \in SmartFolders :
          EvaluateSmartFolder(StoredFolder(f), OwnerOf(f))' =
          EvaluateSmartFolder(StoredFolder(f), OwnerOf(f))
C28_MigrationKeepsTheResult == [][C28_Step]_vars

----------------------------------------------------------------------------
(* A further claim checked under SpecValidate.                             *)

ErrorsAbout(errors, i) == {k \in DOMAIN errors : errors[k].condition = i}

\* C22: validate_rules reports at most one error per condition: in the list
\* a rejected preview carries, no condition of the submitted body has more
\* than one entry.
C22_OneErrorPerCondition ==
    (call.op = "preview_rules" /\ result.status = "400")
    => \A i \in DOMAIN GetConditions(call.rules) :
          Cardinality(ErrorsAbout(result.errors, i)) <= 1

----------------------------------------------------------------------------
(* Specification SpecNotes: the notes API.  Two users create notes and     *)
(* child notes in their note lists and move them with update_note.         *)

MaxNotes == 2

\* note_lists.owner_id; no request of this specification writes note lists
NoteListOwner(l) == CASE l = "l1" -> "u1" [] l = "l2" -> "u1" [] l = "l3" -> "u2"
                      [] OTHER -> None

ExistingNotes == {n \in NoteIds : notes[n].exists}
NewNoteId == CHOOSE n \in NoteIds : ~notes[n].exists

EnsureOwnedNoteList(owner_id, note_list_id) ==
    note_list_id \in NoteListIds /\ NoteListOwner(note_list_id) = owner_id

EnsureOwnedNote(owner_id, note_id) ==
    /\ note_id \in ExistingNotes
    /\ NoteListOwner(notes[note_id].note_list_id) = owner_id

\* _validate_parent_note: the status it raises, or "ok"
ValidateParentNote(owner_id, parent_id, note_list_id) ==
    IF ~EnsureOwnedNote(owner_id, parent_id) THEN "404"
    ELSE IF notes[parent_id].note_list_id # note_list_id THEN "400"
    ELSE "ok"

\* Variant: only a note that is made its own parent is refused
CheckSelfParentOnly(visited, current_parent_id) ==
    IF current_parent_id \in visited THEN "400" ELSE "ok"
\* _check_circular_reference: the loop "while current_parent_id", entered
\* with visited = {note_id}
RECURSIVE CheckCircularReference(_, _)
CheckCircularReference(visited, current_parent_id) ==
    IF current_parent_id = None THEN "ok"
    ELSE IF current_parent_id \in visited THEN "400"
    ELSE CheckCircularReference(visited \cup {current_parent_id},
                                IF current_parent_id \in ExistingNotes
                                THEN notes[current_parent_id].parent_id ELSE None)

NoteRequest(op, user, target, note_list_id, parent_id) ==
    [op |-> op, user |-> user, target |-> target, note_list_id |-> note_list_id,
     parent_id |-> parent_id]
Raise(code, detail) == [status |-> code, nodes |-> {}, detail |-> detail]

\* POST /notes
CreateNote(current_user, note_list_id, parent_id) ==
    LET parent == IF parent_id # None
                  THEN ValidateParentNote(current_user, parent_id, note_list_id) ELSE "ok"
    IN
    /\ Cardinality(ExistingNotes) < MaxNotes
    /\ call' = NoteRequest("create_note", current_user, NewNoteId, note_list_id, parent_id)
    /\ IF ~EnsureOwnedNoteList(current_user, note_list_id) THEN
            /\ notes' = notes
            /\ result' = Raise("404", "note_list_not_found")
       ELSE IF parent = "404" THEN
            /\ notes' = notes
            /\ result' = Raise("404", "note_not_found")
       ELSE IF parent = "400" THEN
            /\ notes' = notes
            /\ result' = Raise("400", "parent_note_must_belong_to_same_note_list")
       ELSE /\ notes' = [notes EXCEPT ![NewNoteId] = NoteRow(note_list_id, parent_id)]
            /\ result' = Status("201")
    /\ UNCHANGED <<nodes, node_tags, rules, now, stack, inflight>>

\* POST /notes/{note_id}/children
CreateChildNote(current_user, note_id, note_list_id) ==
    /\ Cardinality(ExistingNotes) < MaxNotes
    /\ call' = NoteRequest("create_child_note", current_user, NewNoteId, note_list_id,
                           note_id)
    /\ IF ~EnsureOwnedNote(current_user, note_id) THEN
            /\ notes' = notes
            /\ result' = Raise("404", "note_not_found")
       ELSE IF note_list_id # notes[note_id].note_list_id THEN
            /\ notes' = notes
            /\ result' = Raise("400", "child_note_must_belong_to_same_note_list_as_parent")
       ELSE /\ notes' = [notes EXCEPT ![NewNoteId] = NoteRow(note_list_id, note_id)]
            /\ result' = Status("201")
    /\ UNCHANGED <<nodes, node_tags, rules, now, stack, inflight>>

\* PATCH /notes/{note_id}; note_list_id None and parent_id None stand for
\* fields the request leaves out.  Nothing is stored unless the handler
\* reaches db.commit()
UpdateNote(current_user, note_id, note_list_id, parent_id) ==
    LET target_list_id == IF note_list_id # None THEN note_list_id
                          ELSE notes[note_id].note_list_id
        parent == ValidateParentNote(current_user, parent_id, target_list_id)
        moved == IF note_list_id # None
                 THEN [notes[note_id] EXCEPT !.note_list_id = note_list_id,
                                             !.parent_id = IF parent_id = None THEN None ELSE @]
                 ELSE notes[note_id]
    IN
    /\ call' = NoteRequest("update_note", current_user, note_id, note_list_id, parent_id)
    /\ IF ~EnsureOwnedNote(current_user, note_id) THEN
            /\ notes' = notes
            /\ result' = Raise("404", "note_not_found")
       ELSE IF note_list_id # None /\ ~EnsureOwnedNoteList(current_user, note_list_id) THEN
            /\ notes' = notes
            /\ result' = Raise("404", "note_list_not_found")
       ELSE IF parent_id # None /\ parent = "404" THEN
            /\ notes' = notes
            /\ result' = Raise("404", "note_not_found")
       ELSE IF parent_id # None /\ parent = "400" THEN
            /\ notes' = notes
            /\ result' = Raise("400", "parent_note_must_belong_to_same_note_list")
       ELSE IF parent_id # None /\ CheckCircularReference({note_id}, parent_id) = "400" THEN
            /\ notes' = notes
            /\ result' = Raise("400", "circular_reference_detected")
       ELSE /\ notes' = [notes EXCEPT ![note_id] =
                            IF parent_id # None THEN [moved EXCEPT !.parent_id = parent_id]
                            ELSE moved]
            /\ result' = Status("200")
    /\ UNCHANGED <<nodes, node_tags, rules, now, stack, inflight>>

InitNotes ==
    /\ nodes = [n \in NodeIds |-> NoNode]
    /\ node_tags = {}
    /\ rules = [r \in RuleIds |-> NoRule]
    /\ now = Ts(Today, 1)
    /\ call = Idle
    /\ result = NoResult
    /\ stack = <<>>
    /\ notes = NoNotes
    /\ inflight = NoRequests

NextNotes ==
    \/ \E u \in Users, l \in NoteListIds, p \in NoteIds \cup {None} : CreateNote(u, l, p)
    \/ \E u \in Users, n \in NoteIds, l \in NoteListIds : CreateChildNote(u, n, l)
    \/ \E u \in Users, n \in NoteIds, l \in NoteListIds \cup {None},
          p \in NoteIds \cup {None} : UpdateNote(u, n, l, p)

SpecNotes == InitNotes /\ [][NextNotes]_vars

\* the notes reached from n by following parent_id at least once, in table t
RECURSIVE NoteAncestors(_, _, _)
NoteAncestors(t, n, fuel) ==
    IF fuel = 0 \/ n \notin NoteIds \/ ~t[n].exists \/ t[n].parent_id = None THEN {}
    ELSE {t[n].parent_id} \cup NoteAncestors(t, t[n].parent_id, fuel - 1)
AncestorsOfNote(t, n) == NoteAncestors(t, n, Cardinality(NoteIds))
NoNoteIsItsOwnAncestor(t) == \A n \in NoteIds : t[n].exists => n \notin AncestorsOfNote(t, n)

\* C23: no note is ever its own ancestor, and an update_note that names the
\* note itself or one of its descendants as the new parent is refused and
\* nothing is stored: with 400 circular_reference_detected when the note and
\* the named parent pass the checks made before the cycle check (both owned
\* by the caller, the parent in the note's target list).
C23_Step ==
    LET n == call'.target
        p == call'.parent_id
        u == call'.user
        l == IF call'.note_list_id # None THEN call'.note_list_id
             ELSE notes[n].note_list_id
        would_cycle == /\ call'.op = "update_note"
                       /\ n \in ExistingNotes
                       /\ p # None
                       /\ (p = n \/ n \in AncestorsOfNote(notes, p))
    IN
    /\ NoNoteIsItsOwnAncestor(notes')
    /\ would_cycle
       => /\ notes' = notes
          /\ result'.status \in {"400", "404"}
          /\ (/\ NoteListOwner(notes[n].note_list_id) = u
              /\ NoteListOwner(l) = u
              /\ NoteListOwner(notes[p].note_list_id) = u
              /\ notes[p].note_list_id = l)
             => result' = Raise("400", "circular_reference_detected")
----------------------------------------------------------------------------
(* Further claims checked under Spec.                                      *)

\* C24: when the effective rule has conditions and none of them produces a
\* filter, the folder's result is the empty set.
C24_NoFilterMatchesNothing ==
    (/\ Evaluated
     /\ Resolves
     /\ EffectiveConditions # <<>>
     /\ \A i \in DOMAIN EffectiveConditions : Matches(i).kind = "none")
    => result.nodes = {}

----------------------------------------------------------------------------
(* Specification SpecForest: the requests of SpecTree and delete_node.     *)

\* the rows that go when node_id is deleted: nodes.parent_id is ON DELETE
\* CASCADE
Subtree(node_id) == {n \in Existing : n = node_id \/ ReachesUp(n, node_id)}

\* DELETE /nodes/{node_id}
DeleteNode(current_user, node_id) ==
    LET found == node_id \in Existing /\ nodes[node_id].owner_id = current_user
    IN
    /\ call' = NodeRequest("delete_node", current_user, node_id, None, Missing,
                           None, NullRules)
    /\ IF ~found THEN
            /\ UNCHANGED <<nodes, node_tags>>
            /\ result' = Status("404")
       ELSE /\ nodes' = [n \in NodeIds |-> IF n \in Subtree(node_id) THEN NoNode
                                           ELSE nodes[n]]
            /\ node_tags' = {nt \in node_tags : nt[1] \notin Subtree(node_id)}
            /\ result' = Status("200")
    /\ UNCHANGED <<rules, now, stack, notes, inflight>>

NextForest ==
    \/ NextTree
    \/ \E u \in Users, n \in Existing : DeleteNode(u, n)

SpecForest == InitTree /\ [][NextForest]_vars

\* C25: after any sequence of create_node, update_node, move_node and
\* delete_node calls no node is its own parent or its own ancestor, and the
\* parent walk of validate_move has returned.
C25_ParentRelationIsAcyclic ==
    /\ \A n \in Existing : ~ReachesUp(n, n)
    /\ result.status # "no return"

----------------------------------------------------------------------------
(* Specification SpecMoves: two move_node requests of one user are served  *)
(* concurrently.  Each request runs its queries one at a time on its own   *)
(* session, under the default isolation level and without row locks, so    *)
(* the queries and commits of the two requests interleave.                 *)

Procs == {1, 2}
MoveNodes == {"f1", "f2", "n1"}

\* where a request stands: not begun, in the while loop of validate_move
\* with its current_parent, before session.commit(), or answered
NotBegun == [pc |-> "idle", user |-> None, node_id |-> None, new_parent_id |-> None,
             current_parent |-> None, status |-> None]
Serving(pc, user, node_id, new_parent_id, current_parent, status) ==
    [pc |-> pc, user |-> user, node_id |-> node_id, new_parent_id |-> new_parent_id,
     current_parent |-> current_parent, status |-> status]

\* move_node up to the call of validate_move: get_node_by_id_raw
MoveNodeBegin(p, current_user, node_id, new_parent_id) ==
    LET found == node_id \in Existing /\ nodes[node_id].owner_id = current_user
    IN
    /\ inflight[p].pc = "idle"
    /\ call' = NodeRequest("move_node", current_user, node_id, None, new_parent_id,
                           None, NullRules)
    /\ result' = IF found THEN NoResult ELSE Status("404")
    /\ inflight' = [inflight EXCEPT ![p] =
            IF ~found
            THEN Serving("done", current_user, node_id, new_parent_id, None, "404")
            ELSE IF new_parent_id # None
            THEN Serving("validate", current_user, node_id, new_parent_id,
                         new_parent_id, None)
            ELSE Serving("write", current_user, node_id, new_parent_id, None, None)]
    /\ UNCHANGED <<nodes, node_tags, rules, now, stack, notes>>

\* one turn of "while current_parent" in validate_move: the comparison with
\* node_id and the query for the parent of current_parent
ValidateMoveStep(p) ==
    LET r == inflight[p]
        parent_row == IF r.current_parent \in Existing
                         /\ nodes[r.current_parent].owner_id = r.user
                      THEN nodes[r.current_parent].parent_id ELSE None
    IN
    /\ r.pc = "validate"
    /\ IF r.current_parent = None THEN
            /\ inflight' = [inflight EXCEPT ![p].pc = "write"]
            /\ result' = result
       ELSE IF r.current_parent = r.node_id THEN
            /\ inflight' = [inflight EXCEPT ![p].pc = "done", ![p].status = "400"]
            /\ result' = Status("400")
       ELSE /\ inflight' = [inflight EXCEPT ![p].current_parent = parent_row]
            /\ result' = result
    /\ UNCHANGED <<nodes, node_tags, rules, now, call, stack, notes>>

\* node.parent_id = move_data.new_parent_id and session.commit()
MoveNodeCommit(p) ==
    LET r == inflight[p]
        gone == r.node_id \notin Existing
    IN
    /\ r.pc = "write"
    /\ IF gone \/ ForeignKeyViolation(r.new_parent_id) THEN
            /\ nodes' = nodes
            /\ inflight' = [inflight EXCEPT ![p].pc = "done", ![p].status = "500"]
            /\ result' = Status("500")
       ELSE /\ nodes' = [nodes EXCEPT ![r.node_id].parent_id = r.new_parent_id]
            /\ inflight' = [inflight EXCEPT ![p].pc = "done", ![p].status = "200"]
            /\ result' = Status("200")
    /\ UNCHANGED <<node_tags, rules, now, call, stack, notes>>

\* the stores the requests start on: every forest of three folders of u1
Forests ==
    {t \in [MoveNodes -> MoveNodes \cup {None}] :
        \A n \in MoveNodes :
            /\ t[n] # n
            /\ t[n] # None => t[t[n]] # n
            /\ \E m \in MoveNodes : t[m] = None}

InitMoves ==
    \E t \in Forests :
        /\ nodes = [n \in NodeIds |->
                       IF n \in MoveNodes THEN NodeRow("u1", t[n], "folder", CharsOf("a"))
                       ELSE NoNode]
        /\ node_tags = {}
        /\ rules = [r \in RuleIds |-> NoRule]
        /\ now = Ts(Today, 1)
        /\ call = Idle
        /\ result = NoResult
        /\ stack = <<>>
        /\ notes = NoNotes
        /\ inflight = [p \in Procs |-> NotBegun]

NextMoves ==
    \/ \E p \in Procs, n \in MoveNodes \cup {GhostId}, np \in MoveNodes \cup {None, GhostId} :
          MoveNodeBegin(p, "u1", n, np)
    \/ \E p \in Procs : ValidateMoveStep(p)
    \/ \E p \in Procs : MoveNodeCommit(p)

SpecMoves == InitMoves /\ [][NextMoves]_vars

\* C26: whatever the interleaving of two move_node requests of one user on
\* an acyclic tree, the committed tree is acyclic: no node is its own
\* ancestor, and of "move A under B" and "move B under A" at most one is
\* committed.
C26_ConcurrentMovesKeepTheTreeAcyclic ==
    /\ \A n \in MoveNodes : ~ReachesUp(n, n)
    /\ \A p \in Procs, q \in Procs :
          (/\ inflight[p].status = "200" /\ inflight[q].status = "200"
           /\ inflight[p].new_parent_id # None
           /\ inflight[p].node_id = inflight[q].new_parent_id)
          => inflight[q].node_id # inflight[p].new_parent_id

----------------------------------------------------------------------------
(* A further claim checked under SpecDates.                                *)

\* the tasks the three overdue operators are to match for a count of N days
OverdueRange(operator, days, n) ==
    /\ nodes[n].due_at # NullTs
    /\ CASE operator = "overdue_by_days" -> DayOf(nodes[n].due_at) = DayOf(now) - days
         [] operator = "overdue_by_more_than" -> DayOf(nodes[n].due_at) < DayOf(now) - days
         [] operator = "overdue_by_less_than" ->
                /\ DayOf(nodes[n].due_at) > DayOf(now) - days
                /\ DayOf(nodes[n].due_at) < DayOf(now)

\* C29: for N >= 1, a folder whose only condition is due_date
\* overdue_by_days N lists exactly the tasks due on the day N days before
\* today, overdue_by_more_than N the tasks due before that day, and
\* overdue_by_less_than N the tasks due after that day and before today; no
\* task is matched by more than one of the three.
C29_OverdueOperatorsAreDisjoint ==
    /\ (/\ Evaluated
        /\ SingleCondition
        /\ TheCondition.type = "due_date"
        /\ TheCondition.operator \in OverdueOperators
        /\ TheCondition.values # <<>>
        /\ TheCondition.values[1] \in {"1", "2"})
       => result.nodes =
            {n \in Eligible : /\ nodes[n].node_type = "task"
                              /\ OverdueRange(TheCondition.operator,
                                              IntOf(TheCondition.values[1]), n)}
    /\ \A v \in {"1", "2"}, n \in TaskIds :
          Cardinality({o \in OverdueOperators :
                          n \in BuildDateFilter(o, <<v>>, "due_at").ids}) <= 1

----------------------------------------------------------------------------
(* Specification SpecRules: the rules API, called by two users in any      *)
(* order on a rules table that holds no rule or one system rule.           *)

\* uuid4() yields an id that is not in use
FreeRuleId == \E r \in RuleIds : ~rules[r].exists

\* a rule flagged is_system, as the installation provides it
SystemRules == {RuleRow("u1", FALSE, TRUE, LegacyRules), RuleRow("u2", TRUE, TRUE, LegacyRules)}

InitRules ==
    \E r1 \in SystemRules \cup {NoRule} :
        /\ nodes = [n \in NodeIds |-> NoNode]
        /\ node_tags = {}
        /\ rules = [r \in RuleIds |-> IF r = "r1" THEN r1 ELSE NoRule]
        /\ now = Ts(Today, 1)
        /\ call = Idle
        /\ result = NoResult
        /\ stack = <<>>
        /\ notes = NoNotes
        /\ inflight = NoRequests

NextRules ==
    \/ \E u \in Users, b \in StoreBodies, pub \in BOOLEAN :
          FreeRuleId /\ CreateRule(u, b, pub)
    \/ \E u \in Users, r \in RuleIds, b \in StoreBodies \cup {NullRules},
          pub \in {"keep", "true", "false"} : UpdateRule(u, r, b, pub)
    \/ \E u \in Users, r \in RuleIds : DeleteRule(u, r)
    \/ \E u \in Users, r \in RuleIds : FreeRuleId /\ DuplicateRule(u, r)

SpecRules == InitRules /\ [][NextRules]_vars

\* C30: a request of the rules API creates no system rule, changes no
\* rule's owner or is_system flag, changes or deletes a rule only when the
\* caller owns it and it is not a system rule, and duplicate_rule adds a
\* private, non-system copy owned by the caller and changes no other row.
C30_Step ==
    \A r \in RuleIds :
        /\ (~rules[r].exists /\ rules'[r].exists)
           => /\ ~rules'[r].is_system
              /\ rules'[r].owner_id = call'.user
              /\ call'.op \in {"create_rule", "duplicate_rule"}
              /\ call'.op = "duplicate_rule"
                 => /\ ~rules'[r].is_public
                    /\ rules'[r].rule_data = rules[call'.target].rule_data
        /\ (rules[r].exists /\ rules'[r].exists)
           => /\ rules'[r].owner_id = rules[r].owner_id
              /\ rules'[r].is_system = rules[r].is_system
        /\ (rules[r].exists /\ rules'[r] # rules[r])
           => /\ ~rules[r].is_system
              /\ rules[r].owner_id = call'.user
              /\ call'.op \in {"update_rule", "delete_rule"}
              /\ call'.target = r
C30_RulesKeepOwnerAndSystemFlag == [][C30_Step]_vars

\* the owner of a system rule asked to update or delete it and was refused
C30_Witness ==
    /\ call.op \in {"update_rule", "delete_rule"}
    /\ rules[call.target].exists
    /\ rules[call.target].is_system
    /\ rules[call.target].owner_id = call.user
    /\ result.status = "404"
    /\ \E r \in RuleIds : r # call.target /\ rules[r].exists /\ ~rules[r].is_system

====
